---- MODULE Spec2Model ----
(***************************************************************************)
(* Model of the planets module of the engine (src/src/modules/planets.c):  *)
(* the heliocentric position cache (planet_get_pvh), the observer-relative *)
(* memoization with its single light-time pass (planet_get_pvo), the phase *)
(* output (planet_get_phase) and the eclipse factor of the Sun             *)
(* (compute_sun_eclipse_factor).                                           *)
(*                                                                         *)
(* Arithmetic.  Times are integer ticks, positions and velocities are      *)
(* integers along one axis (a position-velocity pair is <<p, v>>), so that *)
(* the extrapolation, the sums and the norm are exact.  Angles are in      *)
(* milliradians, fractions in thousandths.                                 *)
(***************************************************************************)
EXTENDS Integers, Sequences, FiniteSets, TLC

VARIABLES
    update_delta_s,     \* planet.update_delta_s, in ticks
    last_full_update,   \* planet.last_full_update (0: no cached value)
    last_full_pvh,      \* planet.last_full_pvh
    pvo_obs_hash,       \* planet.pvo_obs_hash
    pvo,                \* planet.pvo
    planets,            \* the bodies of the loaded catalog
    call,               \* the call that has just returned
    ncalls,             \* the number of calls made so far
    eclipse,            \* the last eclipse factor computed, with its inputs
    shadow,             \* the last list of shadow candidates, with its inputs
    sunmag,             \* the last magnitude of the Sun, with its eclipse factor
    ini,                \* the catalog the loader has built so far
    listing,            \* the last listing of a module, with its inputs
    race,               \* the planet_get_pvh calls of concurrent threads
    occluder,           \* the bodies compute_sun_eclipse_factor went through
    planet_parent,      \* planet->parent of each body
    sources,            \* the module_add_data_source requests and their tasks
    render,             \* the shadow spheres of a planet render pass
    tree                \* the objects of the module tree and the last two calls on it

vars == <<update_delta_s, last_full_update, last_full_pvh, pvo_obs_hash, pvo,
          planets, call, ncalls, eclipse, shadow, sunmag, ini, listing, race, occluder, planet_parent, sources, render, tree>>

(* The variables of the bodies and of the calls on them. *)
engine_vars == <<update_delta_s, last_full_update, last_full_pvh,
                 pvo_obs_hash, pvo, planets, call, ncalls>>

----------------------------------------------------------------------------
(* Bounds of the model. *)

MaxT == 2           \* observer times are 0..MaxT
MaxSite == 0        \* observer sites are 0..MaxSite
MaxCalls == 2       \* a behaviour makes up to MaxCalls calls
MaxRadius == 3      \* body radii are 0, 2, .. 2 * MaxRadius
MaxSep == 12        \* angular separations are 0..MaxSep
MaxOthers == 4      \* the loop over the bodies meets up to MaxOthers bodies
MaxNb == 3          \* nb_max is 0..MaxNb, occluder radii are 1..MaxNb
MaxChildren == 2
MaxSiblings == 2
MaxRequests == 2
MaxRuns == 3
MaxCasters == 5
MaxObjs == 2
MaxRef == 3    \* a listed module has up to MaxChildren children

----------------------------------------------------------------------------
(* Known bodies id. *)

SUN == 10
MERCURY == 199
VENUS == 299
MOON == 301
EARTH == 399
MARS == 499
IO == 501
EUROPA == 502
GANYMEDE == 503
CALLISTO == 504
JUPITER == 599
SATURN == 699
URANUS == 799
NEPTUNE == 899
PLUTO == 999        \* a body of the catalog with no dedicated model
AMALTHEA == 505     \* a moon of Jupiter with no dedicated model

(* update_delta_s = 1 + rand() / RAND_MAX: from 1 to 2 seconds, a tick     *)
(* being a second.                                                         *)
MinDelta == 1

MaxDelta == 2

(* The bodies of the model, one of each class, and the catalogs they come  *)
(* in: a catalog holds the parent of each of its bodies.                   *)
Bodies == {SUN, EARTH, MOON, JUPITER, IO, AMALTHEA, PLUTO}

Catalogs == {{SUN, EARTH, MOON}, {SUN, JUPITER, IO}, {SUN, PLUTO}}

(* planet.parent, as set from the catalog. *)
parent == [b \in Bodies |->
             CASE b = MOON -> EARTH
               [] b = IO -> JUPITER
               [] b = AMALTHEA -> JUPITER
               [] OTHER -> SUN]

(* The bodies in the order of the list of the module: the order of the     *)
(* sections of the catalog, a parent before its children.                  *)
ListOrder == <<SUN, EARTH, MOON, JUPITER, IO, AMALTHEA, PLUTO>>

(* planet.radius_m / DAU, in the unit of the positions. *)
radius_m == [b \in Bodies |->
               CASE b = SUN -> 4
                 [] b = JUPITER -> 3
                 [] b = EARTH -> 2
                 [] OTHER -> 1]

Abs(x) == IF x < 0 THEN 0 - x ELSE x

----------------------------------------------------------------------------
(* Vector helpers. *)

eraZpv == <<0, 0>>

eraPvppv(a, b) == <<a[1] + b[1], a[2] + b[2]>>

eraPvmpv(a, b) == <<a[1] - b[1], a[2] - b[2]>>

(* Position advanced by dt times the velocity, velocity kept. *)
eraPvu(dt, pv) == <<pv[1] + dt * pv[2], pv[2]>>

vec3_norm(p) == Abs(p)

PI == 3142

(* Angle between two vectors: on one axis, 0 or pi (0 for a null vector). *)
eraSepp(a, b) == IF a * b < 0 THEN PI ELSE 0

(* cos, in thousandths, at the two angles eraSepp yields. *)
cos(i) == IF i = PI THEN 0 - 1000 ELSE 1000

----------------------------------------------------------------------------
(* The orbit models the engine calls.  Each is a fixed function of the     *)
(* time, not linear in it, so that an extrapolated state differs from a    *)
(* recomputed one.                                                         *)

eraPlan94(tt, n) == <<10 * n + tt * tt, 2 * tt + 1>>

l12(tt, n) == <<n + 2 - ((tt * tt) % 5), 1 - 2 * (tt % 3)>>

orbit_compute_pv(tt) == <<60 - 2 * tt * tt, 0 - 4 * tt>>

moon_pos(tt) == 3 - ((tt * tt) % 7)

moon_icrf_geocentric_pos(tt) == moon_pos(tt)

(* The observer: time, site, and the fields derived from them. *)
earth_pvh(tt) == <<8 + tt * (tt - 3), 2 * tt - 3>>

Observer(tt, site) ==
    [tt |-> tt,
     site |-> site,
     hash |-> tt * (MaxSite + 1) + site,
     earth_pvh |-> earth_pvh(tt),
     sun_pvb |-> <<1, 0>>,
     obs_pvb |-> eraPvppv(eraPvppv(earth_pvh(tt), <<1, 0>>), <<site, 0>>)]

Observers == {Observer(tt, site) : tt \in 0..MaxT, site \in 0..MaxSite}

----------------------------------------------------------------------------
(* The caches of all the bodies and the trace of the running call, as      *)
(* threaded through the functions below.                                   *)

Event(ev, planet, tt) == [ev |-> ev, planet |-> planet, tt |-> tt]

Trace(st, ev, planet, tt) == [st EXCEPT !.log = Append(@, Event(ev, planet, tt))]

(* if (planet->last_full_update) { dt = ...; if (fabs(dt) < delta) ... } *)
UseCachedLe(upd, delta, tt) == upd # 0 /\ Abs(tt - upd) <= delta

UseCached(upd, delta, tt) == upd # 0 /\ Abs(tt - upd) < delta

(* dt = obs->tt - planet->last_full_update; eraPvu(dt, last_full_pvh, pvh) *)
ExtrapolateNoDt(upd, pvh, tt) == pvh

Extrapolate(upd, pvh, tt) == eraPvu(tt - upd, pvh)

(* // Cache the value for next time. *)
StoreNoEpoch(st, planet, tt, pvh) ==
    [ret |-> pvh,
     st |-> [st EXCEPT !.last_full_pvh[planet] = pvh]]

Store(st, planet, tt, pvh) ==
    [ret |-> pvh,
     st |-> [st EXCEPT !.last_full_pvh[planet] = pvh,
                       !.last_full_update[planet] = tt]]

(* NULL for a body: the body a of could_cast_shadow, a planet->parent that *)
(* the catalog has not set.                                                *)
NoBody == 0

(* planet->last_full_update with planet NULL: the read is of address zero. *)
(* It ends the process, or it gives what the memory there holds, and the   *)
(* call goes on with fields that are no body's: st.ub is which of the two, *)
(* and the state it returns then.                                          *)
Trap == [kind |-> "trap", pvh |-> eraZpv]

UndefinedOutcomes == {Trap} \cup {[kind |-> "garbage", pvh |-> g] :
                                    g \in {eraZpv, <<MaxT + 1, 1>>}}

NullDeref(obs, st) ==
    [ret |-> st.ub.pvh,
     st |-> [Trace(st, "null_deref", NoBody, obs.tt)
               EXCEPT !.trapped = st.ub.kind = "trap"]]

(* The switch on planet->id of planet_get_pvh. *)
MajorPlanets == {MERCURY, VENUS, MARS, JUPITER, SATURN, URANUS, NEPTUNE}

GalileanMoons == {IO, EUROPA, GANYMEDE, CALLISTO}

RECURSIVE planet_get_pvh(_, _, _)
planet_get_pvh(planet, obs, st) ==
    IF planet = NoBody THEN NullDeref(obs, st)
    ELSE IF UseCached(st.last_full_update[planet], st.update_delta_s[planet],
                 obs.tt)
    THEN [ret |-> Extrapolate(st.last_full_update[planet],
                              st.last_full_pvh[planet], obs.tt),
          st |-> Trace(st, "pvh_hit", planet, obs.tt)]
    ELSE
    LET s0 == Trace(st, "pvh_miss", planet, obs.tt) IN
    CASE planet = EARTH -> [ret |-> obs.earth_pvh, st |-> s0]
      [] planet = SUN -> [ret |-> eraZpv, st |-> s0]
      [] planet = MOON ->
            LET p0 == moon_icrf_geocentric_pos(obs.tt)
                p1 == moon_icrf_geocentric_pos(obs.tt + 1)
            IN  [ret |-> eraPvppv(<<p0, p1 - p0>>, obs.earth_pvh),
                 st |-> Trace(s0, "model", planet, obs.tt)]
      [] planet \in MajorPlanets ->
            Store(Trace(s0, "model", planet, obs.tt), planet, obs.tt,
                  eraPlan94(obs.tt, (planet - MERCURY) \div 100 + 1))
      [] planet \in GalileanMoons ->
            LET par == planet_get_pvh(st.parent[planet], obs, s0)
                own == l12(obs.tt, planet - IO + 1)
            IN  Store(Trace(par.st, "model", planet, obs.tt), planet, obs.tt,
                      eraPvppv(own, par.ret))
      [] OTHER ->
            LET par == planet_get_pvh(st.parent[planet], obs, s0)
                own == orbit_compute_pv(obs.tt)
            IN  Store(Trace(par.st, "model", planet, obs.tt), planet, obs.tt,
                      eraPvppv(own, par.ret))

(* ldt = vec3_norm(pvo[0]) * DAU / LIGHT_YEAR_IN_METER * DJY: the ticks    *)
(* light needs for the distance.                                           *)
LightDiv == 20

LightTime(dist) == dist \div LightDiv

(* pvo = pvh + sun_pvb - obs_pvb *)
ToObserverNoObs(pvh, obs) == eraPvppv(pvh, obs.sun_pvb)

ToObserver(pvh, obs) == eraPvmpv(eraPvppv(pvh, obs.sun_pvb), obs.obs_pvb)

(* observer_t obs2 = *obs; obs2.tt -= ldt;  The pass has its own copy of   *)
(* the observer, and the snapshot of the caller is left as it is.          *)
SharedCopy(st, obs, ldt) ==
    [st EXCEPT !.obs2 = [obs EXCEPT !.tt = obs.tt - ldt],
               !.obs = [obs EXCEPT !.tt = obs.tt - ldt]]

PrivateCopy(st, obs, ldt) ==
    [st EXCEPT !.obs2 = [obs EXCEPT !.tt = obs.tt - ldt]]

(* if (adjust_light_speed && obs->hash == planet->pvo_obs_hash) *)
PvoCachedAnyMode(adjust_light_speed, hash, stored) == hash = stored

PvoCached(adjust_light_speed, hash, stored) ==
    adjust_light_speed /\ hash = stored

(* // Copy value into cache to speed up next access. *)
StorePvoHashOnly(st, planet, hash, value) ==
    [ret |-> value,
     st |-> [st EXCEPT !.pvo_obs_hash[planet] = hash]]

StorePvo(st, planet, hash, value) ==
    [ret |-> value,
     st |-> [st EXCEPT !.pvo_obs_hash[planet] = hash,
                       !.pvo[planet] = value]]

planet_get_pvo(planet, obs, adjust_light_speed, st) ==
    LET s0 == IF adjust_light_speed
              THEN Trace(st, "hash_read", planet, obs.tt) ELSE st
    IN
    IF PvoCached(adjust_light_speed, obs.hash, st.pvo_obs_hash[planet])
    THEN [ret |-> st.pvo[planet], st |-> Trace(s0, "pvo_hit", planet, obs.tt)]
    ELSE
    LET h1 == planet_get_pvh(planet, obs, s0)
        pvo1 == ToObserver(h1.ret, obs)
    IN
    IF ~adjust_light_speed THEN [ret |-> pvo1, st |-> h1.st]
    ELSE
    LET ldt == LightTime(vec3_norm(pvo1[1]))
        copied == PrivateCopy(h1.st, obs, ldt)
        obs2 == copied.obs2
        h2 == planet_get_pvh(planet, obs2, copied)
        pvo2 == ToObserver(h2.ret, obs)
    IN  StorePvo(Trace(h2.st, "pvo_store", planet, obs.tt), planet, obs.hash,
                 pvo2)

NAN == [nan |-> TRUE, val |-> 0]

Number(x) == [nan |-> FALSE, val |-> x]

(* if (planet->id == EARTH || planet->id == SUN) return NAN; *)
PhaseUndefinedSunOnly(id) == id = SUN

PhaseUndefined(id) == id = EARTH \/ id = SUN

(* return 0.5 * cos(i) + 0.5, in thousandths *)
PhaseOfAngleRaw(i) == i

PhaseOfAngle(i) == (500 * cos(i)) \div 1000 + 500

planet_get_phase(planet, obs, st) ==
    IF PhaseUndefined(planet)
    THEN [ret |-> NAN, st |-> st, pvh |-> eraZpv, pvo |-> eraZpv]
    ELSE
    LET h == planet_get_pvh(planet, obs, st)
        o == planet_get_pvo(planet, obs, TRUE, h.st)
        i == eraSepp(h.ret[1], o.ret[1])
    IN  [ret |-> Number(PhaseOfAngle(i)), st |-> o.st,
         pvh |-> h.ret, pvo |-> o.ret]

----------------------------------------------------------------------------
(* The eclipse factor of the Sun.  Angles are integers, the factor is in   *)
(* thousandths.                                                            *)

(* A division of doubles: by zero it gives an infinity (or a NaN), which   *)
(* is kept apart from every quotient.                                      *)
NoNumber == 99999999

Quotient(a, b) == IF b = 0 THEN NoNumber ELSE a \div b

(* sun_r = 2.0 * sun->radius_m / DAU / vec3_norm(obs->sun_pvo[0]), and the *)
(* same for sph_r.                                                         *)
SeenSize(radius, dist) == Quotient(2 * radius, dist)

(* planet->radius_m / DAU / vec3_norm(pvo[0]): the angular radius, as      *)
(* planet_get_info gives it for INFO_RADIUS.                               *)
AngularRadius(radius, dist) == radius \div dist

(* if (sep <= sph_r - sun_r) return 0.0; // Total eclipse. *)
TotalEclipseNever(sun_r, sph_r, sep) == FALSE

TotalEclipse(sun_r, sph_r, sep) == sep <= sph_r - sun_r

(* // Compute shadow factor.  The overlap of the two disks is kept as the  *)
(* two cosines the code takes the arc cosine of, with the three divisors   *)
(* of the branch: 2.0 * sep, sun_r and sph_r.                              *)
ShadowFactor(sun_r, sph_r, sep) ==
    IF sep >= sun_r + sph_r THEN [branch |-> "outside", val |-> 1000]
    ELSE IF TotalEclipse(sun_r, sph_r, sep)
    THEN [branch |-> "umbra", val |-> 0]
    ELSE IF sep <= sun_r - sph_r
    THEN [branch |-> "inside",
          val |-> 1000 - Quotient(1000 * sph_r * sph_r, sun_r * sun_r)]
    ELSE
    LET x == Quotient(1000 * (sun_r * sun_r + sep * sep - sph_r * sph_r),
                      2 * sep)
    IN  [branch |-> "lens",
         cos_alpha |-> Quotient(x, sun_r),
         cos_beta |-> Quotient(1000 * sep - x, sph_r),
         divisors |-> <<2 * sep, sun_r, sph_r>>]

(* The loop over the bodies: the first body with the id of the Moon        *)
(* decides, and without one the factor is 1.0.                             *)
RECURSIVE EclipseScan(_, _, _, _, _)

compute_sun_eclipse_factor(sun_rm, sun_d, has_moon, moon_rm, moon_d, sep) ==
    IF ~has_moon THEN [branch |-> "no_moon", val |-> 1000]
    ELSE ShadowFactor(SeenSize(sun_rm, sun_d), SeenSize(moon_rm, moon_d), sep)

(* if (p->id != MOON) continue; // Only consider the Moon. *)
IsOccluderAny(id) == TRUE

IsOccluder(id) == id = MOON

(* PLANETS_ITER(sun->obj.parent, p) over the children of the parent of the *)
(* Sun, from the k-th on.  A body is its id, its radius, and what          *)
(* planet_get_pvo gives for it: its distance to the observer and its       *)
(* separation from the Sun.  The bodies looked at are kept in seen.        *)
EclipseScan(siblings, k, sun_rm, sun_d, seen) ==
    IF k > Len(siblings)
    THEN [out |-> compute_sun_eclipse_factor(sun_rm, sun_d, FALSE, 0, 1, 0),
          seen |-> seen]
    ELSE IF ~IsOccluder(siblings[k].id)
    THEN EclipseScan(siblings, k + 1, sun_rm, sun_d, seen)
    ELSE [out |-> compute_sun_eclipse_factor(
                      sun_rm, sun_d, TRUE, siblings[k].radius_m,
                      siblings[k].dist, siblings[k].sep),
          seen |-> Append(seen, k)]

----------------------------------------------------------------------------
(* The magnitude of the Sun.  The eclipse factor is in millionths here,    *)
(* magnitudes are in thousandths.                                          *)

max(a, b) == IF a > b THEN a ELSE b

(* The floor of the eclipse factor, 0.000128, in millionths. *)
MinEclipseFactor == 128

(* eclipse_factor = max(compute_sun_eclipse_factor(sun, obs), 0.000128) *)
FlooredNot(factor) == factor

Floored(factor) == max(factor, MinEclipseFactor)

MinusInfinity == 0 - 100000

(* log10 of a value in millionths, in thousandths and rounded down to the  *)
(* decade below, the floor of the eclipse factor counting as one: exact at *)
(* 0 (no logarithm), 0.000128 and the powers of ten, and never decreasing. *)
log10(x) ==
    IF x <= 0 THEN MinusInfinity
    ELSE IF x < 10 THEN 0 - 6000
    ELSE IF x < 100 THEN 0 - 5000
    ELSE IF x < MinEclipseFactor THEN 0 - 4000
    ELSE IF x < 1000 THEN 0 - 3893
    ELSE IF x < 10000 THEN 0 - 3000
    ELSE IF x < 100000 THEN 0 - 2000
    ELSE IF x < 1000000 THEN 0 - 1000
    ELSE 0

(* The last term of the magnitude: - 2.5 * (log10(eclipse_factor)).  The   *)
(* terms before it, of the distance of the Sun, are left out.              *)
sun_get_vmag(factor) ==
    LET eclipse_factor == Floored(factor)
    IN  [eclipse_factor |-> eclipse_factor,
         dimming |-> (0 - 5 * log10(eclipse_factor)) \div 2]

----------------------------------------------------------------------------
(* The list of the bodies that could cast a shadow on a body.  The loop of *)
(* get_shadow_candidates is a function of the bodies it meets, in the      *)
(* order of the list: each with its radius and with what could_cast_shadow *)
(* answers for it.  The array of the caller has nb_max slots, 0 to         *)
(* nb_max - 1; the slots the loop has filled are kept as a sequence, and   *)
(* every slot index the loop reads or writes is recorded.                  *)

Sphere(pos, radius) == [pos |-> pos, radius |-> radius]

cmp(a, b) == IF a > b THEN 1 ELSE IF a < b THEN 0 - 1 ELSE 0

(* return -cmp(a[3], b[3]), the fourth component being the radius. *)
sort_shadow_cmpAscending(a, b) == cmp(a.radius, b.radius)

sort_shadow_cmp(a, b) == 0 - cmp(a.radius, b.radius)

RECURSIVE qsortInsert(_, _)
qsortInsert(x, s) ==
    IF s = <<>> THEN <<x>>
    ELSE IF sort_shadow_cmp(x, Head(s)) <= 0 THEN <<x>> \o s
    ELSE <<Head(s)>> \o qsortInsert(x, Tail(s))

(* qsort(spheres, nb, ..., sort_shadow_cmp) *)
RECURSIVE qsort(_)
qsort(s) == IF s = <<>> THEN <<>> ELSE qsortInsert(Head(s), qsort(Tail(s)))

ShadowStart == [nb |-> 0, spheres |-> <<>>, reads |-> {}, writes |-> {}]

(* if (other->radius_m / DAU < spheres[nb_max - 1][3]) continue; *)
TooSmallFlipped(radius, last) == radius > last

TooSmall(radius, last) == radius < last

(* One turn of the loop, for a body could_cast_shadow accepts.  A read of  *)
(* a slot outside the array gives any value: garbage.  The body is refused *)
(* when the list is full and its radius is below the last one.             *)
ShadowRefused(radius, nb_max, garbage, acc) ==
    LET idx == nb_max - 1
        last == IF idx + 1 \in 1..Len(acc.spheres)
                THEN acc.spheres[idx + 1].radius ELSE garbage
    IN  acc.nb >= nb_max /\ TooSmall(radius, last)

ShadowInsert(radius, pos, nb_max, garbage, acc) ==
    LET full == acc.nb >= nb_max
        rd == IF full THEN acc.reads \cup {nb_max - 1} ELSE acc.reads
    IN
    IF ShadowRefused(radius, nb_max, garbage, acc)
    THEN [acc EXCEPT !.reads = rd]
    ELSE
    LET nb == IF full THEN acc.nb - 1 ELSE acc.nb
        kept == SubSeq(acc.spheres, 1, nb)
        stored == IF nb >= 0 THEN Append(kept, Sphere(pos, radius)) ELSE kept
    IN  [nb |-> nb + 1,
         spheres |-> qsort(stored),
         reads |-> rd \cup 0..nb,
         writes |-> (acc.writes \cup {nb}) \cup 0..nb]

(* PLANETS_ITER(planets, other) over the bodies from the k-th on. *)
RECURSIVE ShadowLoop(_, _, _, _, _)
ShadowLoop(others, k, nb_max, garbage, acc) ==
    IF k > Len(others) THEN acc
    ELSE ShadowLoop(others, k + 1, nb_max, garbage,
                    IF others[k].could_cast
                    THEN ShadowInsert(others[k].radius, k, nb_max, garbage,
                                      acc)
                    ELSE acc)

ShadowCandidates(others, nb_max, garbage) ==
    ShadowLoop(others, 1, nb_max, garbage, ShadowStart)

(* get_shadow_candidates(planet, painter.obs, 4, shadow_spheres), where    *)
(* shadow_spheres is double shadow_spheres[4][4].                          *)
ShadowSpheresMax == 4

(* if (painter.planet.shadow_spheres_nb < 4) *)
RingsHaveRoomAtFour(nb) == nb <= 4

RingsHaveRoom(nb) == nb < 4

(* render_rings: the sphere of the planet is added to the spheres the      *)
(* painter has, in the array of planet_render_hips, at index nb.           *)
render_rings(planet_radius, painter) ==
    IF RingsHaveRoom(painter.nb)
    THEN [nb |-> painter.nb + 1,
          spheres |-> Append(painter.spheres, Sphere(0, planet_radius)),
          reads |-> painter.reads,
          writes |-> painter.writes \cup {painter.nb}]
    ELSE painter

(* planet_render_hips: the spheres handed to the painter for the tiles of  *)
(* the planet, and then for its rings when the planet has rings.           *)
planet_render_hips(others, planet_radius, has_rings) ==
    LET hips == ShadowCandidates(others, ShadowSpheresMax, 0)
    IN  [hips |-> hips,
         rings |-> IF has_rings THEN render_rings(planet_radius, hips)
                   ELSE hips]

----------------------------------------------------------------------------
(* The queries on the bodies of a loaded catalog that are built on         *)
(* planet_get_pvh and planet_get_pvo.                                      *)

(* obs->sun_pvo: the Sun as the observer sees it. *)
sun_pvo(obs) == ToObserver(eraZpv, obs)

(* compute_sun_eclipse_factor(sun, obs): PLANETS_ITER stops at the first   *)
(* body with the id of the Moon.                                           *)
sun_eclipse_factor(obs, st) ==
    IF MOON \notin planets
    THEN [ret |-> compute_sun_eclipse_factor(radius_m[SUN], 1, FALSE, 0, 1, 0),
          st |-> st]
    ELSE
    LET o == planet_get_pvo(MOON, obs, TRUE, st)
    IN  [ret |-> compute_sun_eclipse_factor(
                     radius_m[SUN], vec3_norm(sun_pvo(obs)[1]), TRUE,
                     radius_m[MOON], vec3_norm(o.ret[1]),
                     eraSepp(sun_pvo(obs)[1], o.ret[1])),
         st |-> o.st]

(* planet_get_vmag with sun_get_vmag, moon_get_vmag and rings_vmag.  A     *)
(* magnitude is kept as what it is computed from: the eclipse factor for   *)
(* the Sun, the distances rho and rp for the other bodies.                 *)
planet_get_vmag(planet, obs, st) ==
    IF planet = SUN
    THEN LET e == sun_eclipse_factor(obs, st)
         IN  [ret |-> [model |-> "sun", eclipse |-> e.ret], st |-> e.st]
    ELSE
    LET h == planet_get_pvh(planet, obs, st)
        o == planet_get_pvo(planet, obs, TRUE, h.st)
        rings == IF planet = SATURN THEN planet_get_pvh(planet, obs, o.st)
                 ELSE o
    IN  [ret |-> [model |-> IF planet = MOON THEN "moon"
                            ELSE IF planet \in MajorPlanets THEN "planet"
                            ELSE "generic",
                  rho |-> vec3_norm(h.ret[1]),
                  rp |-> vec3_norm(o.ret[1])],
         st |-> rings.st]

(* SUN_RADIUS = 695508000.0 / DAU, in the unit of the positions *)
SUN_RADIUS == 4

(* b->id >= IO && b->id <= JUPITER *)
InJupiterRange(id) == id >= IO /\ id <= JUPITER

Sign(x) == IF x < 0 THEN 0 - 1 ELSE IF x > 0 THEN 1 ELSE 0

(* The test on the positions pa of a and pb of b.  On one axis the point   *)
(* of the axis of the shadow nearest to b is b itself, so that the test is *)
(* 0 < penumbra_r + b->radius_m / DAU, with                                *)
(*   shadow_dist = pb along the direction of pa,                           *)
(*   d = |pa| / (a->radius_m / DAU / SUN_RADIUS + 1.0),                    *)
(*   penumbra_r = (shadow_dist - d) / d * SUN_RADIUS,                      *)
(* here with both sides multiplied by d * (radius of a + SUN_RADIUS) /     *)
(* SUN_RADIUS, which is above zero.  With pa null the direction is not a   *)
(* number and the comparison is false.                                     *)
InShadow(a, b, pa, pb) ==
    IF pa * pa > pb * pb THEN FALSE
    ELSE IF pa = 0 THEN FALSE
    ELSE LET shadow_dist == Sign(pa) * pb
         IN  shadow_dist * (radius_m[a] + SUN_RADIUS)
                > Abs(pa) * (SUN_RADIUS - radius_m[b])

(* The answer of could_cast_shadow, recorded in the trace with the length  *)
(* the trace had when the call started.                                    *)
Answered(a, b, obs, since, ret, st) ==
    [ret |-> ret,
     st |-> [st EXCEPT !.log = Append(@, [ev |-> "could_cast_shadow",
                                          planet |-> a, tt |-> obs.tt,
                                          target |-> b, since |-> since,
                                          ret |-> ret])]]

could_cast_shadow(a, b, obs, st) ==
    LET since == Len(st.log) IN
    IF a = NoBody
    THEN Answered(a, b, obs, since, b = MOON \/ InJupiterRange(b), st)
    ELSE IF b = a THEN Answered(a, b, obs, since, FALSE, st)
    ELSE IF InJupiterRange(b) /\ ~InJupiterRange(a)
    THEN Answered(a, b, obs, since, FALSE, st)
    ELSE IF b = MOON /\ a # EARTH THEN Answered(a, b, obs, since, FALSE, st)
    ELSE
    LET apvh == planet_get_pvh(a, obs, st)
        bpvh == planet_get_pvh(b, obs, apvh.st)
    IN  Answered(a, b, obs, since,
                 InShadow(a, b, apvh.ret[1], bpvh.ret[1]), bpvh.st)

(* PLANETS_ITER(planets, other), from the k-th body of the list on. *)
RECURSIVE ShadowScan(_, _, _, _, _, _, _)
ShadowScan(others, k, planet, obs, nb_max, acc, st) ==
    IF k > Len(others) THEN [ret |-> acc, st |-> st]
    ELSE
    LET other == others[k]
        c == could_cast_shadow(other, planet, obs, st)
    IN  IF ~c.ret
        THEN ShadowScan(others, k + 1, planet, obs, nb_max, acc, c.st)
        ELSE IF ShadowRefused(radius_m[other], nb_max, 0, acc)
        THEN ShadowScan(others, k + 1, planet, obs, nb_max,
                        ShadowInsert(radius_m[other], 0, nb_max, 0, acc),
                        c.st)
        ELSE
        LET o == planet_get_pvo(other, obs, TRUE, c.st)
        IN  ShadowScan(others, k + 1, planet, obs, nb_max,
                       ShadowInsert(radius_m[other], o.ret[1], nb_max, 0,
                                    acc),
                       o.st)

get_shadow_candidates(planet, obs, nb_max, st) ==
    LET c == could_cast_shadow(NoBody, planet, obs, st)
    IN  IF ~c.ret THEN [ret |-> ShadowStart, st |-> c.st]
        ELSE ShadowScan(SelectSeq(ListOrder, LAMBDA b : b \in planets), 1,
                        planet, obs, nb_max, ShadowStart, c.st)

----------------------------------------------------------------------------
(* The loader of the catalog: planets_ini_handler is called once for each  *)
(* line "attr = value" of the data file, with the section the line is in.  *)
(* A body is known by the name of its section.                             *)

NULL == "NULL"

Names == {"sun", "ceres", "vesta"}

(* The bodies created so far in the order of the list, with the fields the *)
(* handler has set: a new body has the id 0 and no parent.  failed: an     *)
(* assert did not hold (the load goes on where asserts are compiled out).  *)
NoIni == [order |-> <<>>,
          id |-> [n \in Names |-> 0],
          parent |-> [n \in Names |-> NULL],
          failed |-> FALSE]

planet_get_by_name(catalog, name) ==
    IF \E i \in DOMAIN catalog.order : catalog.order[i] = name
    THEN name ELSE NULL

(* planet->parent = planet_get_by_name(planets, value); *)
(* assert(planet->parent);                              *)
SetParent(catalog, section, value) ==
    LET found == planet_get_by_name(catalog, value)
    IN  [catalog EXCEPT !.parent[section] = found,
                        !.failed = @ \/ found = NULL]

planets_ini_handler(catalog, section, attr, value) ==
    LET created == IF planet_get_by_name(catalog, section) = NULL
                   THEN [catalog EXCEPT !.order = Append(@, section)]
                   ELSE catalog
    IN  IF attr = "horizons_id" THEN [created EXCEPT !.id[section] = value]
        ELSE IF attr = "parent" THEN SetParent(created, section, value)
        ELSE created

(* The bodies planet_get_pvh gives a position without asking for the       *)
(* position of their parent.                                               *)
NeedsNoParent(id) == id \in {EARTH, SUN, MOON} \cup MajorPlanets

(* The calls of planet_get_pvh on the ancestors of a body that one call on *)
(* the body makes when no position is cached, counted up to fuel: a count  *)
(* above the number of bodies is a recursion that does not end.            *)
RECURSIVE NestedCalls(_, _, _)
NestedCalls(catalog, name, fuel) ==
    IF fuel = 0 \/ name = NULL \/ NeedsNoParent(catalog.id[name]) THEN 0
    ELSE 1 + NestedCalls(catalog, catalog.parent[name], fuel - 1)

(* The number of ancestors of a body, counted up to fuel. *)
RECURSIVE Depth(_, _, _)
Depth(catalog, name, fuel) ==
    IF fuel = 0 \/ catalog.parent[name] = NULL THEN 0
    ELSE 1 + Depth(catalog, catalog.parent[name], fuel - 1)

----------------------------------------------------------------------------
(* module_list_objs (src/src/module.c).  A module is the list method of    *)
(* its class (has_list, with what it returns), the OBJ_LISTABLE flag and   *)
(* its children in the order of the list; a child is what obj_get_info     *)
(* answers for INFO_VMAG (info: 0 on success, with the magnitude vmag) and *)
(* what the callback returns for it (stop).  The trace of the call is the  *)
(* sequence of the obj_get_info and callback calls it makes.               *)

isnan(x) == x.nan

(* vmag > max_mag, false when one of the two is not a number *)
FainterOrEqual(vmag, max_mag) ==
    ~vmag.nan /\ ~max_mag.nan /\ vmag.val >= max_mag.val

Fainter(vmag, max_mag) == ~vmag.nan /\ ~max_mag.nan /\ vmag.val > max_mag.val

(* DL_FOREACH(obj->children, child), from the i-th child on *)
RECURSIVE ListChildren(_, _, _, _, _)
ListChildren(children, i, test_vmag, max_mag, f) ==
    IF i > Len(children) THEN <<>>
    ELSE
    LET child == children[i]
        asked == IF test_vmag THEN <<[ev |-> "obj_get_info", child |-> i]>>
                 ELSE <<>>
        rest == ListChildren(children, i + 1, test_vmag, max_mag, f)
    IN  IF test_vmag /\ child.info = 0 /\ Fainter(child.vmag, max_mag)
        THEN asked \o rest
        ELSE IF ~f THEN asked \o rest
        ELSE IF child.stop # 0
        THEN asked \o <<[ev |-> "f", child |-> i]>>
        ELSE asked \o <<[ev |-> "f", child |-> i]>> \o rest

module_list_objs(obj, max_mag, f) ==
    LET test_vmag == ~isnan(max_mag)
    IN  IF obj.has_list
        THEN [ret |-> obj.list_ret, trace |-> <<[ev |-> "list", child |-> 0]>>]
        ELSE IF ~obj.listable THEN [ret |-> 0 - 1, trace |-> <<>>]
        ELSE [ret |-> 0,
              trace |-> ListChildren(obj.children, 1, test_vmag, max_mag, f)]

----------------------------------------------------------------------------
(* module_add_data_source and the task it leaves in the core.  A request   *)
(* is the module, url and key of a module_add_data_source call, the result *)
(* of the first add_data_source call of the module, the data of the task   *)
(* when one was made, the add_data_source calls and the results of the     *)
(* runs of the task, and how many times each allocation was freed.         *)

MODULE_AGAIN == 2

(* What add_data_source of a module returns: done, an error, or again. *)
Results == {0, 0 - 1, MODULE_AGAIN}

NoData == [module |-> NULL, url |-> NULL, key |-> NULL]

NoFrees == [url |-> 0, key |-> 0, data |-> 0]

Request(module, url, key, r) ==
    [module |-> module, url |-> url, key |-> key, first |-> r,
     enqueued |-> FALSE, queued |-> FALSE, data |-> NoData,
     calls |-> <<>>, rets |-> <<>>, freed |-> NoFrees]

(* strdup(s): a copy of the string.  Of a null pointer it reads address    *)
(* zero: the process ends there, or the copy is of what the memory there   *)
(* holds; ub is which.                                                     *)
GarbageStrings == {"", "junk"}

StrdupOutcomes == {"trap"} \cup GarbageStrings

strdup(s, ub) == IF s = NULL THEN ub ELSE s

(* if (r == MODULE_AGAIN) *)
Again(r) == r = MODULE_AGAIN

(* core_add_task(module_add_data_source_task, data): the task is in the    *)
(* list of the core from now on.                                           *)
core_add_task(req, data) ==
    [req EXCEPT !.enqueued = TRUE, !.queued = TRUE, !.data = data]

(* module_add_data_source(module, url, key), where r is what the module    *)
(* returns: the request it leaves, and whether the process got through.    *)
module_add_data_source(module, url, key, r, ub) ==
    LET req == Request(module, url, key, r)
        copy_url == strdup(url, ub)
        copy_key == strdup(key, ub)
    IN  IF ~Again(r) THEN [req |-> req, trapped |-> FALSE]
        ELSE IF key = NULL /\ ub = "trap" THEN [req |-> req, trapped |-> TRUE]
        ELSE [req |-> core_add_task(req, [module |-> module,
                                          url |-> copy_url,
                                          key |-> copy_key]),
              trapped |-> FALSE]

(* module_add_data_source_task(task, dt), where r is what the module       *)
(* returns this time: the value returned to the core is the last of rets.  *)
module_add_data_source_task(req, r) ==
    LET called == [req EXCEPT !.calls = Append(@, [module |-> req.data.module,
                                                   url |-> req.data.url,
                                                   key |-> req.data.key,
                                                   r |-> r])]
    IN  IF Again(r) THEN [called EXCEPT !.rets = Append(@, 0)]
        ELSE [called EXCEPT !.rets = Append(@, 1),
                            !.freed = [url |-> @.url + 1, key |-> @.key + 1,
                                       data |-> @.data + 1]]

(* The core runs the tasks of its list at each update, and takes a task    *)
(* that returned non zero off the list.                                    *)
core_update_task(req, r) ==
    LET ran == module_add_data_source_task(req, r)
    IN  [ran EXCEPT !.queued = ran.rets[Len(ran.rets)] = 0]

NoSources == [reqs |-> <<>>, trapped |-> FALSE]

----------------------------------------------------------------------------
(* The tree of the modules.  An object is its parent field, its reference *)
(* count and the list of its children; live says whether it was created    *)
(* and whether it was destroyed since.  The fields of a destroyed object   *)
(* stay as they were.                                                      *)

Objs == 1..MaxObjs

(* NULL for an object. *)
NoObj == 0

Unmade == [live |-> "none", parent |-> NoObj, ref |-> 0, children |-> <<>>]

(* obj_create(type, id, args): a new object, with one reference, the one   *)
(* of its creator.                                                         *)
obj_create(objs, o) == [objs EXCEPT ![o] = [Unmade EXCEPT !.live = "alive",
                                                              !.ref = 1]]

(* obj_retain(obj): one more reference. *)
obj_retain(objs, o) == [objs EXCEPT ![o].ref = @ + 1]

(* obj_release(obj): one reference less, and the object is destroyed with  *)
(* its last reference.                                                     *)
obj_release(objs, o) ==
    [objs EXCEPT ![o].ref = @ - 1,
                 ![o].live = IF objs[o].ref = 1 THEN "freed" ELSE @]

(* DL_APPEND(head, add) and DL_DELETE(head, del) of utlist. *)
DL_APPEND(head, add) == Append(head, add)

DL_DELETE(head, del) == SelectSeq(head, LAMBDA x : x # del)

(* child->parent = parent; *)
SetParentField(obj, owner) == [obj EXCEPT !.parent = owner]

(* child->parent = NULL; *)
ClearParentNot(obj) == obj

ClearParent(obj) == [obj EXCEPT !.parent = NoObj]

(* assert(!child->parent); assert(parent); *)
module_add_asserts(objs, owner, child) ==
    objs[child].parent = NoObj /\ owner # NoObj

module_add(objs, owner, child) ==
    LET set == [objs EXCEPT ![child] = SetParentField(@, owner)]
        appended == [set EXCEPT ![owner].children = DL_APPEND(@, child)]
    IN  obj_retain(appended, child)

(* ret = obj_create(type, id, args); module_add(module, ret);              *)
(* obj_release(ret); return ret;                                           *)
module_add_new(objs, module, ret) ==
    obj_release(module_add(obj_create(objs, ret), module, ret), ret)

(* assert(child->parent == parent); assert(parent);                      *)
(* assert(child->ref > 0);                                                 *)
module_remove_asserts(objs, owner, child) ==
    objs[child].parent = owner /\ owner # NoObj /\ objs[child].ref > 0

module_remove(objs, owner, child) ==
    LET cleared == [objs EXCEPT ![child] = ClearParent(@)]
        deleted == [cleared EXCEPT ![owner].children = DL_DELETE(@, child)]
    IN  obj_release(deleted, child)

(* DL_FOREACH(module->children, ret) from the k-th child on: the first     *)
(* child with the id gets one more reference and is returned.  An object   *)
(* is its own id here.  asserted is whether assert(ret->ref > 0) held of   *)
(* every child the loop went through.                                      *)
RECURSIVE module_get_child(_, _, _, _)
module_get_child(objs, module, id, k) ==
    LET list == objs[module].children IN
    IF k > Len(list) THEN [ret |-> NoObj, objs |-> objs, asserted |-> TRUE]
    ELSE IF objs[list[k]].ref <= 0
    THEN [ret |-> NoObj, objs |-> objs, asserted |-> FALSE]
    ELSE IF list[k] = id
    THEN [ret |-> id, objs |-> [objs EXCEPT ![id].ref = @ + 1],
          asserted |-> TRUE]
    ELSE module_get_child(objs, module, id, k + 1)

(* The last call: ref_before is the reference count its child had, and    *)
(* after_add the count the child had before the call before it, when that  *)
(* was a module_add of the same child, else -1.                            *)
NoOp == [op |-> "none", parent |-> NoObj, child |-> NoObj, ref_before |-> 0,
         after_add |-> 0 - 1, asserted |-> TRUE]

(* After the start: the root module alone. *)
NoTree == [objs |-> [o \in Objs |-> IF o = 1
                                    THEN [Unmade EXCEPT !.live = "alive",
                                                        !.ref = 1]
                                    ELSE Unmade],
           last |-> NoOp]

----------------------------------------------------------------------------
(* planet_get_pvh called by several threads on one body.  A call is the    *)
(* sequence of its accesses to the two fields of the cache of the body:    *)
(* the read of last_full_update for the test, then on a hit the read of    *)
(* last_full_pvh, and on a miss the write of last_full_pvh followed by the *)
(* write of last_full_update.  The accesses of the threads interleave in   *)
(* any order.                                                              *)

(* The three queries: two that interleave, and a third. *)
Threads == 1..3

(* A major planet: its state is a function of the time alone. *)
RaceBody == JUPITER

Idle == [pc |-> "idle", tt |-> 0, upd |-> 0, pvh |-> eraZpv, ret |-> eraZpv,
         hit |-> FALSE]

(* writes: who wrote which field, in the order of the writes. *)
NoRace == [th |-> [t \in Threads |-> Idle], writes |-> <<>>]

(* eraCpv(pvh, planet->last_full_pvh); *)
CachedPvh(cache, planet, pvh) == [cache EXCEPT ![planet] = pvh]

(* planet->last_full_update = obs->tt; *)
CachedEpochNot(cache, planet, tt) == cache

CachedEpoch(cache, planet, tt) == [cache EXCEPT ![planet] = tt]

----------------------------------------------------------------------------
(* The state machine: each action is one call from outside, on any body    *)
(* and with any observer.                                                  *)

State == [update_delta_s |-> update_delta_s,
          last_full_update |-> last_full_update,
          last_full_pvh |-> last_full_pvh,
          pvo_obs_hash |-> pvo_obs_hash,
          pvo |-> pvo,
          obs |-> Observer(0, 0),
          obs2 |-> Observer(0, 0),
          parent |-> planet_parent,
          ub |-> Trap,
          trapped |-> FALSE,
          log |-> <<>>]

(* The state at the start of a call with the observer snapshot obs: obs is *)
(* the snapshot as the caller holds it, obs2 the last copy of it a         *)
(* light-time pass has made.                                               *)
WithObs(obs) == [State EXCEPT !.obs = obs, !.obs2 = obs]

NoBefore == [some |-> FALSE, tt |-> 0, ret |-> eraZpv]

NoCall == [op |-> "none", planet |-> SUN, obs |-> Observer(0, 0),
           adjust |-> FALSE, ret |-> eraZpv, log |-> <<>>,
           pvh |-> eraZpv, pvo |-> eraZpv, before |-> NoBefore,
           obs_after |-> Observer(0, 0), obs2 |-> Observer(0, 0)]

(* What a planet_get_pvh call keeps of the call before it, when that was a *)
(* planet_get_pvh call on the same body.                                   *)
Before(op, planet) ==
    IF op = "pvh" /\ call.op = "pvh" /\ call.planet = planet
    THEN [some |-> TRUE, tt |-> call.obs.tt, ret |-> call.ret]
    ELSE NoBefore

(* update_delta_s = 1 + rand() / RAND_MAX seconds, for each body. *)
Deltas == {[b \in Bodies |-> MinDelta + ((b + k) % (MaxDelta - MinDelta + 1))] :
             k \in 0..(MaxDelta - MinDelta)}

NoEclipse == [sun_radius_m |-> 0, sun_dist |-> 1, has_moon |-> FALSE,
              moon_radius_m |-> 0, moon_dist |-> 1, sep |-> 0,
              out |-> [branch |-> "none", val |-> 1000]]

NoOccluder == [called |-> FALSE, siblings |-> <<>>, sun_radius_m |-> 0,
               seen |-> <<>>, out |-> [branch |-> "none", val |-> 1000]]

NoRender == [called |-> FALSE, others |-> <<>>, has_rings |-> FALSE,
             out |-> [hips |-> ShadowStart, rings |-> ShadowStart]]

NoSunMag == [called |-> FALSE, factor |-> 1000000,
             out |-> [eclipse_factor |-> 1000000, dimming |-> 0]]

NoListing == [called |-> FALSE,
              obj |-> [has_list |-> FALSE, list_ret |-> 0,
                       listable |-> FALSE, children |-> <<>>],
              max_mag |-> NAN, f |-> FALSE,
              out |-> [ret |-> 0, trace |-> <<>>]]

NoShadow == [others |-> <<>>, nb_max |-> 0, garbage |-> 0, called |-> FALSE,
             out |-> ShadowStart]

(* The state of the bodies and of the model after the load. *)
Fresh ==
    /\ update_delta_s \in Deltas
    /\ last_full_update = [b \in Bodies |-> 0]
    /\ last_full_pvh = [b \in Bodies |-> eraZpv]
    /\ pvo_obs_hash = [b \in Bodies |-> 0]
    /\ pvo = [b \in Bodies |-> eraZpv]
    /\ call = NoCall
    /\ ncalls = 0
    /\ eclipse = NoEclipse
    /\ shadow = NoShadow
    /\ sunmag = NoSunMag
    /\ ini = NoIni
    /\ listing = NoListing
    /\ race = NoRace
    /\ occluder = NoOccluder
    /\ sources = NoSources
    /\ render = NoRender
    /\ tree = NoTree

(* Every body has the parent its section of the catalog names. *)
Parented == planet_parent = parent

Init == planets \in Catalogs /\ Fresh /\ Parented

Returned(op, planet, obs, adjust, r, hpv, opv) ==
    /\ ncalls < MaxCalls
    /\ ncalls' = ncalls + 1
    /\ update_delta_s' = r.st.update_delta_s
    /\ last_full_update' = r.st.last_full_update
    /\ last_full_pvh' = r.st.last_full_pvh
    /\ pvo_obs_hash' = r.st.pvo_obs_hash
    /\ pvo' = r.st.pvo
    /\ call' = [op |-> op, planet |-> planet, obs |-> obs, adjust |-> adjust,
                ret |-> r.ret, log |-> r.st.log, pvh |-> hpv, pvo |-> opv,
                before |-> Before(op, planet),
                obs_after |-> r.st.obs, obs2 |-> r.st.obs2]
    /\ UNCHANGED <<planets, eclipse, shadow, sunmag, ini, listing, race, occluder, planet_parent, sources, render, tree>>

GetPvh ==
    \E planet \in planets, obs \in Observers :
        LET r == planet_get_pvh(planet, obs, WithObs(obs))
        IN  Returned("pvh", planet, obs, FALSE, r, r.ret, eraZpv)

GetPvo ==
    \E planet \in planets, obs \in Observers, adjust \in BOOLEAN :
        LET r == planet_get_pvo(planet, obs, adjust, WithObs(obs))
        IN  Returned("pvo", planet, obs, adjust, r, eraZpv, r.ret)

GetPhase ==
    \E planet \in planets, obs \in Observers :
        LET r == planet_get_phase(planet, obs, WithObs(obs))
        IN  Returned("phase", planet, obs, TRUE, r, r.pvh, r.pvo)

Next == GetPvh \/ GetPvo \/ GetPhase

Spec == Init /\ [][Next]_vars

(* planet_get_pvh on the bodies of a catalog in which sections of moons    *)
(* and of generic bodies have no parent attribute: planet->parent is then  *)
(* as calloc left it.                                                      *)
OrphanCatalog == {SUN, JUPITER, IO, PLUTO}

Orphanable == {IO, PLUTO}

InitOrphan ==
    /\ planets = OrphanCatalog
    /\ Fresh
    /\ \E orphans \in SUBSET Orphanable :
          planet_parent = [b \in Bodies |-> IF b \in orphans THEN NoBody
                                            ELSE parent[b]]

(* The process has ended in the call: there is no call after it. *)
Trapped(op, planet, obs, r) ==
    /\ ncalls < MaxCalls
    /\ ncalls' = MaxCalls
    /\ call' = [NoCall EXCEPT !.op = "trapped", !.planet = planet,
                              !.obs = obs, !.log = r.st.log]
    /\ UNCHANGED <<update_delta_s, last_full_update, last_full_pvh,
                   pvo_obs_hash, pvo, planets, eclipse, shadow, sunmag, ini,
                   listing, race, occluder, planet_parent, sources, render, tree>>

OrphanPvh ==
    \E planet \in planets, obs \in Observers, ub \in UndefinedOutcomes :
        LET r == planet_get_pvh(planet, obs, [WithObs(obs) EXCEPT !.ub = ub])
        IN  IF r.st.trapped THEN Trapped("pvh", planet, obs, r)
            ELSE Returned("pvh", planet, obs, FALSE, r, r.ret, eraZpv)

NextOrphan == OrphanPvh

SpecOrphan == InitOrphan /\ [][NextOrphan]_vars

(* The queries built on the two position calls, on catalogs with bodies    *)
(* that can shadow each other.  A behaviour is position calls, then one of *)
(* these queries: the caches it leaves are those position calls leave.     *)
QueryCatalogs == {{SUN, EARTH, MOON}, {SUN, JUPITER, IO, AMALTHEA}}

InitQueries == planets \in QueryCatalogs /\ Fresh /\ Parented

Queried(op, planet, obs, r) ==
    /\ ncalls < MaxCalls
    /\ ncalls' = MaxCalls
    /\ update_delta_s' = r.st.update_delta_s
    /\ last_full_update' = r.st.last_full_update
    /\ last_full_pvh' = r.st.last_full_pvh
    /\ pvo_obs_hash' = r.st.pvo_obs_hash
    /\ pvo' = r.st.pvo
    /\ call' = [op |-> op, planet |-> planet, obs |-> obs, adjust |-> TRUE,
                ret |-> r.ret, log |-> r.st.log, pvh |-> eraZpv,
                pvo |-> eraZpv, before |-> NoBefore,
                obs_after |-> r.st.obs, obs2 |-> r.st.obs2]
    /\ UNCHANGED <<planets, eclipse, shadow, sunmag, ini, listing, race, occluder, planet_parent, sources, render, tree>>

GetVmag ==
    \E planet \in planets, obs \in Observers :
        Queried("vmag", planet, obs, planet_get_vmag(planet, obs, WithObs(obs)))

(* The number of shadow spheres of the renderer, the only caller of        *)
GetShadows ==
    \E planet \in planets, obs \in Observers :
        Queried("shadows", planet, obs,
                get_shadow_candidates(planet, obs, ShadowSpheresMax,
                                      WithObs(obs)))

GetSunEclipseFactor ==
    \E obs \in Observers :
        Queried("eclipse", SUN, obs, sun_eclipse_factor(obs, WithObs(obs)))

(* The position calls come before the last call. *)
Position == ncalls < MaxCalls - 1 /\ (GetPvh \/ GetPvo \/ GetPhase)

NextQueries == Position \/ GetVmag \/ GetShadows \/ GetSunEclipseFactor

SpecQueries == InitQueries /\ [][NextQueries]_vars

(* The initial state of the functions of their arguments alone: the bodies *)
(* are left as one catalog has them when loaded.                           *)
Loaded ==
    /\ Init
    /\ planets = {SUN, EARTH, MOON}
    /\ update_delta_s = CHOOSE d \in Deltas : TRUE

(* The eclipse factor as a function of the radii of the Sun and the Moon,  *)
(* of their distances to the observer and of their angular separation.     *)
(* The geometry keeps no state: one application to each input is all there *)
(* is to see.                                                              *)
Radii == {2 * k : k \in 0..MaxRadius}

Dists == {1, 2}

SunEclipseFactor ==
    \E sun_radius_m \in Radii, sun_dist \in Dists, has_moon \in BOOLEAN,
       moon_radius_m \in Radii, moon_dist \in Dists, sep \in 0..MaxSep :
        /\ eclipse = NoEclipse
        /\ eclipse' = [sun_radius_m |-> sun_radius_m, sun_dist |-> sun_dist,
                       has_moon |-> has_moon,
                       moon_radius_m |-> moon_radius_m,
                       moon_dist |-> moon_dist, sep |-> sep,
                       out |-> compute_sun_eclipse_factor(
                                   sun_radius_m, sun_dist, has_moon,
                                   moon_radius_m, moon_dist, sep)]
        /\ UNCHANGED <<engine_vars, shadow, sunmag, ini, listing, race, occluder, planet_parent, sources, render, tree>>

NextEclipse == SunEclipseFactor

SpecEclipse == Init /\ [][NextEclipse]_vars

(* The eclipse factor as a function of the children of the parent of the   *)
(* Sun, in the order of the list: bodies with the id of the Moon and       *)
(* others, of two sizes, near and far, in front of the Sun, at its limb    *)
(* and away from it.                                                       *)
Sibling == [id : {MOON, JUPITER}, radius_m : {2, 2 * MaxRadius},
            dist : Dists, sep : {0, 2, MaxSep}]

SiblingLists == UNION {[1..n -> Sibling] : n \in 0..MaxSiblings}

ScanSiblings ==
    /\ ~occluder.called
    /\ \E siblings \in SiblingLists, sun_radius_m \in Radii \ {0} :
        LET r == EclipseScan(siblings, 1, sun_radius_m, 1, <<>>)
        IN  occluder' = [called |-> TRUE, siblings |-> siblings,
                         sun_radius_m |-> sun_radius_m,
                         seen |-> r.seen, out |-> r.out]
    /\ UNCHANGED <<engine_vars, eclipse, shadow, sunmag, ini, listing, race, planet_parent, sources, render, tree>>

NextOccluder == ScanSiblings

SpecOccluder == Loaded /\ [][NextOccluder]_vars

(* The magnitude of the Sun as a function of what the eclipse factor is    *)
(* computed from.  The overlap of two disks that cross is a fraction of    *)
(* the disk of the Sun, from 0 to 1: any of LensFactors.                   *)
LensFactors == {0, 64, 128, 129, 500000, 1000000}

SunGetVmag ==
    /\ ~sunmag.called
    /\ \E sun_radius_m \in Radii, sun_dist \in Dists, has_moon \in BOOLEAN,
          moon_radius_m \in Radii, moon_dist \in Dists, sep \in 0..MaxSep,
          lens \in LensFactors :
        LET out == compute_sun_eclipse_factor(sun_radius_m, sun_dist,
                       has_moon, moon_radius_m, moon_dist, sep)
            factor == IF out.branch = "lens" THEN lens ELSE 1000 * out.val
        IN  /\ lens # 0 => out.branch = "lens"
            /\ eclipse' = [sun_radius_m |-> sun_radius_m,
                           sun_dist |-> sun_dist, has_moon |-> has_moon,
                           moon_radius_m |-> moon_radius_m,
                           moon_dist |-> moon_dist, sep |-> sep, out |-> out]
            /\ sunmag' = [called |-> TRUE, factor |-> factor,
                          out |-> sun_get_vmag(factor)]
            /\ UNCHANGED <<engine_vars, shadow, ini, listing, race, occluder, planet_parent, sources, render, tree>>

NextSunMag == SunGetVmag

SpecSunMag == Loaded /\ [][NextSunMag]_vars

(* The load of a catalog: any lines, in any order. *)
IniValues(attr) ==
    IF attr = "horizons_id" THEN {SUN, JUPITER, PLUTO}
    ELSE IF attr = "parent" THEN Names
    ELSE {0}

IniHandler ==
    \E section \in Names, attr \in {"horizons_id", "parent", "radius"} :
    \E value \in IniValues(attr) :
        /\ ini' = planets_ini_handler(ini, section, attr, value)
        /\ UNCHANGED <<engine_vars, eclipse, shadow, sunmag, listing, race, occluder, planet_parent, sources, render, tree>>

NextLoader == IniHandler

SpecLoader == Loaded /\ [][NextLoader]_vars

(* The listing of a module as a function of the module, of its children,   *)
(* of max_mag and of the callback (f: there is one).                       *)
Magnitudes == {NAN} \cup {Number(m) : m \in 1..3}

Children == [info : {0, 1}, vmag : Magnitudes, stop : {0, 1}]

ChildLists == UNION {[1..n -> Children] : n \in 0..MaxChildren}

ModuleListObjs ==
    /\ ~listing.called
    /\ \E has_list \in BOOLEAN, listable \in BOOLEAN,
          children \in ChildLists, max_mag \in {NAN, Number(1), Number(2)},
          f \in BOOLEAN :
       \E list_ret \in IF has_list THEN {0 - 1, 0} ELSE {0} :
        LET obj == [has_list |-> has_list, list_ret |-> list_ret,
                    listable |-> listable, children |-> children]
        IN  /\ listing' = [called |-> TRUE, obj |-> obj,
                           max_mag |-> max_mag, f |-> f,
                           out |-> module_list_objs(obj, max_mag, f)]
            /\ UNCHANGED <<engine_vars, eclipse, shadow, sunmag, ini, race, occluder, planet_parent, sources, render, tree>>

NextListing == ModuleListObjs

SpecListing == Loaded /\ [][NextListing]_vars

(* The threads.  Each makes one call, at any time. *)
RaceCall(t) ==
    \E tt \in 0..MaxT :
        LET upd == last_full_update[RaceBody]
            hit == UseCached(upd, update_delta_s[RaceBody], tt)
        IN  /\ race.th[t].pc = "idle"
            /\ race' = [race EXCEPT !.th[t] =
                   [pc |-> IF hit THEN "read_pvh" ELSE "store_pvh",
                    tt |-> tt, upd |-> upd, hit |-> hit, ret |-> eraZpv,
                    pvh |-> IF hit THEN eraZpv
                            ELSE eraPlan94(tt,
                                     (RaceBody - MERCURY) \div 100 + 1)]]
            /\ UNCHANGED <<engine_vars, eclipse, shadow, sunmag, ini, listing, occluder, planet_parent, sources, render, tree>>

RaceReadPvh(t) ==
    /\ race.th[t].pc = "read_pvh"
    /\ race' = [race EXCEPT !.th[t].pc = "done",
                            !.th[t].pvh = last_full_pvh[RaceBody],
                            !.th[t].ret = Extrapolate(race.th[t].upd,
                                              last_full_pvh[RaceBody],
                                              race.th[t].tt)]
    /\ UNCHANGED <<engine_vars, eclipse, shadow, sunmag, ini, listing, occluder, planet_parent, sources, render, tree>>

RaceStorePvh(t) ==
    /\ race.th[t].pc = "store_pvh"
    /\ last_full_pvh' = CachedPvh(last_full_pvh, RaceBody, race.th[t].pvh)
    /\ race' = [race EXCEPT !.th[t].pc = "store_epoch",
                            !.writes = Append(@, [t |-> t, field |-> "pvh"])]
    /\ UNCHANGED <<update_delta_s, last_full_update, pvo_obs_hash, pvo,
                   planets, call, ncalls, eclipse, shadow, sunmag, ini,
                   listing, occluder, planet_parent, sources, render, tree>>

RaceStoreEpoch(t) ==
    /\ race.th[t].pc = "store_epoch"
    /\ last_full_update' =
          CachedEpoch(last_full_update, RaceBody, race.th[t].tt)
    /\ race' = [race EXCEPT !.th[t].pc = "done",
                            !.th[t].ret = race.th[t].pvh,
                            !.writes = Append(@, [t |-> t, field |-> "epoch"])]
    /\ UNCHANGED <<update_delta_s, last_full_pvh, pvo_obs_hash, pvo,
                   planets, call, ncalls, eclipse, shadow, sunmag, ini,
                   listing, occluder, planet_parent, sources, render, tree>>

NextRace ==
    \E t \in Threads :
        RaceCall(t) \/ RaceReadPvh(t) \/ RaceStorePvh(t) \/ RaceStoreEpoch(t)

InitRace == planets = {SUN, JUPITER, IO} /\ Fresh /\ Parented

SpecRace == InitRace /\ [][NextRace]_vars

(* The data sources: requests from outside, and the updates of the core    *)
(* that run the tasks.                                                     *)
Modules == {"hips", "stars"}

Urls == {"u"}

Keys == {NULL, "k"}

AddDataSource ==
    /\ ~sources.trapped
    /\ Len(sources.reqs) < MaxRequests
    /\ \E module \in Modules, url \in Urls, key \in Keys, r \in Results,
          ub \in StrdupOutcomes :
        LET a == module_add_data_source(module, url, key, r, ub)
        IN  sources' = [reqs |-> Append(sources.reqs, a.req),
                        trapped |-> a.trapped]
    /\ UNCHANGED <<engine_vars, eclipse, shadow, sunmag, ini, listing, race,
                   occluder, planet_parent, render, tree>>

RunTask ==
    /\ ~sources.trapped
    /\ \E i \in DOMAIN sources.reqs, r \in Results :
        /\ sources.reqs[i].queued
        /\ Len(sources.reqs[i].calls) < MaxRuns
        /\ sources' = [sources EXCEPT
                           !.reqs[i] = core_update_task(sources.reqs[i], r)]
    /\ UNCHANGED <<engine_vars, eclipse, shadow, sunmag, ini, listing, race,
                   occluder, planet_parent, render, tree>>

NextSources == AddDataSource \/ RunTask

SpecSources == Loaded /\ [][NextSources]_vars

(* The calls on the tree of the modules, on objects that exist, and with   *)
(* the assertions of the call satisfied.                                   *)
Alive == {o \in Objs : tree.objs[o].live = "alive"}

TreeCall(op, owner, child, objs, asserted) ==
    /\ tree' = [objs |-> objs,
                last |-> [op |-> op, parent |-> owner, child |-> child,
                          ref_before |-> IF child = NoObj THEN 0
                                         ELSE tree.objs[child].ref,
                          after_add |-> IF /\ tree.last.op = "module_add"
                                           /\ tree.last.child = child
                                        THEN tree.last.ref_before
                                        ELSE 0 - 1,
                          asserted |-> asserted]]
    /\ UNCHANGED <<engine_vars, eclipse, shadow, sunmag, ini, listing, race,
                   occluder, planet_parent, sources, render>>

ModuleAdd ==
    \E owner \in Alive, child \in Alive :
        /\ module_add_asserts(tree.objs, owner, child)
        /\ tree.objs[child].ref < MaxRef
        /\ TreeCall("module_add", owner, child,
                    module_add(tree.objs, owner, child), TRUE)

ModuleAddNew ==
    \E module \in Alive, ret \in Objs :
        /\ tree.objs[ret].live = "none"
        /\ \A o \in Objs : o < ret => tree.objs[o].live # "none"
        /\ TreeCall("module_add_new", module, ret,
                    module_add_new(tree.objs, module, ret), TRUE)

ModuleRemove ==
    \E owner \in Alive, child \in Alive :
        /\ module_remove_asserts(tree.objs, owner, child)
        /\ TreeCall("module_remove", owner, child,
                    module_remove(tree.objs, owner, child), TRUE)

ModuleGetChild ==
    \E module \in Alive, id \in Objs :
        LET r == module_get_child(tree.objs, module, id, 1)
        IN  /\ tree.objs[id].ref < MaxRef
            /\ TreeCall("module_get_child", module, r.ret, r.objs,
                        r.asserted)

NextTree == ModuleAdd \/ ModuleAddNew \/ ModuleRemove \/ ModuleGetChild

SpecTree == Loaded /\ [][NextTree]_vars

(* A render pass of a planet, with or without rings, among bodies small    *)
(* and large that cast a shadow on it or not.                              *)
RenderBody == [radius : {1, MaxNb}, could_cast : BOOLEAN]

RenderLists == UNION {[1..n -> RenderBody] : n \in 0..MaxCasters}

PlanetRenderHips ==
    /\ ~render.called
    /\ \E others \in RenderLists, has_rings \in BOOLEAN :
        render' = [called |-> TRUE, others |-> others,
                   has_rings |-> has_rings,
                   out |-> planet_render_hips(others, MaxNb, has_rings)]
    /\ UNCHANGED <<engine_vars, eclipse, shadow, sunmag, ini, listing, race,
                   occluder, planet_parent, sources, tree>>

NextRender == PlanetRenderHips

SpecRender == Loaded /\ [][NextRender]_vars

(* The shadow candidates as a function of the bodies of the list, of what  *)
(* could_cast_shadow answers for each and of nb_max.                       *)
ShadowRadii == 1..MaxNb

ShadowBody == [radius : ShadowRadii, could_cast : BOOLEAN]

ShadowLists == UNION {[1..n -> ShadowBody] : n \in 0..MaxOthers}

GetShadowCandidates ==
    /\ ~shadow.called
    /\ \E others \in ShadowLists, nb_max \in 0..MaxNb :
       \E garbage \in IF nb_max = 0 THEN 0..MaxNb ELSE {0} :
        /\ shadow' = [others |-> others, nb_max |-> nb_max,
                      garbage |-> garbage, called |-> TRUE,
                      out |-> ShadowCandidates(others, nb_max, garbage)]
        /\ UNCHANGED <<engine_vars, eclipse, sunmag, ini, listing, race, occluder, planet_parent, sources, render, tree>>

NextShadow == GetShadowCandidates

SpecShadow == Loaded /\ [][NextShadow]_vars

----------------------------------------------------------------------------
(* Helpers of the properties. *)

(* A step that is a call (not a stuttering step). *)
Called(op) == ncalls' = ncalls + 1 /\ call'.op = op

IsPvhEvent(e) == e.ev = "pvh_hit" \/ e.ev = "pvh_miss"

HasEvent(log, ev, planet) ==
    \E k \in 1..Len(log) : log[k].ev = ev /\ log[k].planet = planet

(* The times of the planet_get_pvh calls made on a body, in call order. *)
PvhTimes(log, planet) ==
    LET of(e) == IsPvhEvent(e) /\ e.planet = planet
        sel == SelectSeq(log, of)
    IN  [k \in 1..Len(sel) |-> sel[k].tt]

HelioUnchanged ==
    last_full_update' = last_full_update /\ last_full_pvh' = last_full_pvh

PvoUnchanged == pvo_obs_hash' = pvo_obs_hash /\ pvo' = pvo

HasParentModel(id) == id \notin {SUN, EARTH, MOON}

----------------------------------------------------------------------------
(* C1: a planet_get_pvh call on a body whose heliocentric cache is present *)
(* and whose |obs.tt - last_full_update| is strictly below update_delta_s  *)
(* returns the cached position advanced by dt times the cached velocity    *)
(* and the cached velocity, evaluates no orbit model and no parent, and    *)
(* leaves the cached state and epoch unchanged; with |dt| equal to         *)
(* update_delta_s the call is a miss.                                      *)
C1_CacheHit ==
    [][Called("pvh") =>
        LET b == call'.planet
            tt == call'.obs.tt
            dt == tt - last_full_update[b]
            fresh == last_full_update[b] # 0
        IN  /\ (fresh /\ Abs(dt) < update_delta_s[b]) =>
                  /\ call'.ret = <<last_full_pvh[b][1] + dt * last_full_pvh[b][2],
                                   last_full_pvh[b][2]>>
                  /\ call'.log = <<Event("pvh_hit", b, tt)>>
                  /\ HelioUnchanged
            /\ (fresh /\ Abs(dt) = update_delta_s[b]) =>
                  /\ call'.log[1] = Event("pvh_miss", b, tt)
                  /\ HasEvent(call'.log, "model", b)
                  /\ last_full_update'[b] = tt
    ]_vars

(* A hit at a time other than the cached epoch, with a moving body. *)
C1_Witness ==
    /\ call.op = "pvh"
    /\ call.log = <<Event("pvh_hit", call.planet, call.obs.tt)>>
    /\ call.obs.tt # last_full_update[call.planet]
    /\ last_full_pvh[call.planet][2] # 0

----------------------------------------------------------------------------
(* C4: a light-time-corrected planet_get_pvo call whose obs.hash equals    *)
(* the stored pvo_obs_hash of the body returns the stored pvo, makes no    *)
(* heliocentric evaluation and changes no cache of any body; two           *)
(* consecutive light-time-corrected calls on a body with the same          *)
(* fingerprint return the same value.                                      *)
C4_Memoized ==
    [][Called("pvo") =>
        LET b == call'.planet IN
        /\ (call'.adjust /\ call'.obs.hash = pvo_obs_hash[b]) =>
              /\ call'.ret = pvo[b]
              /\ \A k \in 1..Len(call'.log) :
                    ~IsPvhEvent(call'.log[k]) /\ call'.log[k].ev # "model"
              /\ HelioUnchanged
              /\ PvoUnchanged
        /\ (/\ call.op = "pvo"
            /\ call.adjust
            /\ call'.adjust
            /\ call.planet = b
            /\ call.obs.hash = call'.obs.hash) => call'.ret = call.ret
    ]_vars

(* A call answered from a value an earlier call stored. *)
C4_Witness ==
    /\ call.op = "pvo"
    /\ call.adjust
    /\ HasEvent(call.log, "pvo_hit", call.planet)
    /\ call.obs.hash # 0
    /\ call.ret # eraZpv

(* C5: a light-time-corrected planet_get_pvo call that misses makes        *)
(* exactly two planet_get_pvh calls on the body, at obs.tt and then at     *)
(* obs.tt minus the light time of the first-pass distance; a call without  *)
(* light-time correction makes exactly one, at obs.tt.                     *)
C5_SingleRefinement ==
    [][Called("pvo") =>
        LET b == call'.planet
            obs == call'.obs
            first == planet_get_pvh(b, obs, State).ret
            dist == Abs(first[1] + obs.sun_pvb[1] - obs.obs_pvb[1])
            times == PvhTimes(call'.log, b)
        IN  /\ (call'.adjust /\ obs.hash # pvo_obs_hash[b]) =>
                  times = <<obs.tt, obs.tt - (dist \div LightDiv)>>
            /\ ~call'.adjust => times = <<obs.tt>>
    ]_vars

(* A corrected call whose second evaluation is at an earlier time. *)
C5_Witness ==
    /\ call.op = "pvo"
    /\ call.adjust
    /\ Len(PvhTimes(call.log, call.planet)) = 2
    /\ PvhTimes(call.log, call.planet)[2] < call.obs.tt

(* C6: pvo and pvo_obs_hash of a body are written only by a                *)
(* light-time-corrected planet_get_pvo call on it that missed, after which *)
(* they hold the value returned and the fingerprint of the observer; a     *)
(* call without light-time correction neither reads nor writes them.       *)
C6_PvoCacheWrites ==
    [][ncalls' = ncalls + 1 =>
        /\ \A b \in Bodies :
              (pvo'[b] # pvo[b] \/ pvo_obs_hash'[b] # pvo_obs_hash[b]) =>
                 /\ b = call'.planet
                 /\ call'.op \in {"pvo", "phase"}
                 /\ call'.adjust
                 /\ call'.obs.hash # pvo_obs_hash[b]
                 /\ HasEvent(call'.log, "pvo_store", b)
        /\ (/\ call'.op = "pvo"
            /\ call'.adjust
            /\ call'.obs.hash # pvo_obs_hash[call'.planet]) =>
                 /\ pvo'[call'.planet] = call'.ret
                 /\ pvo_obs_hash'[call'.planet] = call'.obs.hash
        /\ (call'.op = "pvo" /\ ~call'.adjust) =>
                 LET obs == call'.obs
                     h == planet_get_pvh(call'.planet, obs, State).ret
                 IN  /\ PvoUnchanged
                     /\ ~HasEvent(call'.log, "hash_read", call'.planet)
                     /\ ~HasEvent(call'.log, "pvo_hit", call'.planet)
                     /\ call'.ret = <<h[1] + obs.sun_pvb[1] - obs.obs_pvb[1],
                                      h[2] + obs.sun_pvb[2] - obs.obs_pvb[2]>>
    ]_vars

(* A corrected call that stored its result under a new fingerprint. *)
C6_Witness ==
    /\ call.op = "pvo"
    /\ call.adjust
    /\ HasEvent(call.log, "pvo_store", call.planet)
    /\ pvo[call.planet] = call.ret
    /\ pvo_obs_hash[call.planet] = call.obs.hash
    /\ call.ret # eraZpv
    /\ call.obs.hash # 0

(* C7: planet_get_phase returns the not-a-number sentinel exactly when the *)
(* body is Earth or the Sun, and then computes no position and touches no  *)
(* cache; for any other body it returns a number after the heliocentric    *)
(* and the observer-relative positions of the body were evaluated.         *)
C7_PhaseUndefined ==
    [][Called("phase") =>
        LET b == call'.planet IN
        /\ call'.ret.nan <=> b \in {EARTH, SUN}
        /\ call'.ret.nan =>
              call'.log = <<>> /\ HelioUnchanged /\ PvoUnchanged
        /\ ~call'.ret.nan =>
              /\ IsPvhEvent(call'.log[1])
              /\ call'.log[1].planet = b
              /\ call'.log[1].tt = call'.obs.tt
              /\ HasEvent(call'.log, "hash_read", b)
    ]_vars

(* The phase of Earth, asked after a call that filled a cache. *)
C7_Witness ==
    /\ call.op = "phase"
    /\ call.planet = EARTH
    /\ call.ret.nan
    /\ pvo_obs_hash[MOON] # 0

----------------------------------------------------------------------------
(* C9: with rs and ro the angular radii of the Sun and of the Moon as seen *)
(* by the observer, compute_sun_eclipse_factor returns 1.0 whenever        *)
(* sep >= rs + ro, 0.0 whenever sep <= ro - rs, 1 - (ro / rs)^2 whenever   *)
(* the disk of the Moon lies inside the disk of the Sun, and uses the      *)
(* overlap formula in the remaining case only.                             *)
C9_Classification ==
    (eclipse.out.branch # "none" /\ eclipse.has_moon) =>
    LET rs == AngularRadius(eclipse.sun_radius_m, eclipse.sun_dist)
        ro == AngularRadius(eclipse.moon_radius_m, eclipse.moon_dist)
        sep == eclipse.sep
        out == eclipse.out
    IN  /\ sep >= rs + ro => (out.branch # "lens" /\ out.val = 1000)
        /\ (sep < rs + ro /\ sep <= ro - rs) =>
              (out.branch # "lens" /\ out.val = 0)
        /\ (sep < rs + ro /\ sep > ro - rs /\ sep <= rs - ro) =>
              /\ out.branch # "lens"
              /\ out.val = 1000 - (1000 * ro * ro) \div (rs * rs)
        /\ out.branch = "lens" =>
              (sep < rs + ro /\ sep > ro - rs /\ sep > rs - ro)

----------------------------------------------------------------------------
(* Helpers of the properties of the shadow candidates. *)

(* The bodies of the list could_cast_shadow accepts. *)
Casting == {k \in DOMAIN shadow.others : shadow.others[k].could_cast}

Returned_radii == [i \in DOMAIN shadow.out.spheres |->
                     shadow.out.spheres[i].radius]

Min(a, b) == IF a < b THEN a ELSE b

(* How many of the nb_max largest radii of the accepted bodies are r:      *)
(* counted, not sorted.                                                    *)
LargestCount(r) ==
    LET above == Cardinality({k \in Casting : shadow.others[k].radius > r})
        same == Cardinality({k \in Casting : shadow.others[k].radius = r})
    IN  IF shadow.nb_max <= above THEN 0
        ELSE Min(same, shadow.nb_max - above)

C12_AsStated ==
    shadow.called =>
        \A i \in 1..(Len(Returned_radii) - 1) :
            Returned_radii[i] > Returned_radii[i + 1]

(* C12, amended: the radii of the returned list never increase: each       *)
(* earlier radius is greater than or equal to the later one.               *)
C12_Sorted ==
    shadow.called =>
        \A i \in 1..(Len(Returned_radii) - 1) :
            Returned_radii[i] >= Returned_radii[i + 1]

(* A full list of three, with two equal radii in it, after a body was      *)
(* replaced.                                                               *)
C12_Witness ==
    /\ shadow.called
    /\ shadow.nb_max = 3
    /\ Cardinality(Casting) > 3
    /\ Len(Returned_radii) = 3
    /\ Returned_radii[1] > Returned_radii[2]
    /\ Returned_radii[2] = Returned_radii[3]
    /\ shadow.out.spheres[1].pos = Len(shadow.others)

(* C13: for every order of the list and every nb_max >= 1, the radii       *)
(* returned are, as a multiset, the nb_max largest radii of the bodies     *)
(* could_cast_shadow accepts.                                              *)
C13_Largest ==
    shadow.called /\ shadow.nb_max >= 1 =>
        /\ shadow.out.nb = Len(Returned_radii)
        /\ shadow.out.nb = Min(shadow.nb_max, Cardinality(Casting))
        /\ \A r \in ShadowRadii :
              Cardinality({i \in DOMAIN Returned_radii :
                             Returned_radii[i] = r}) = LargestCount(r)

(* More accepted bodies than slots, met by increasing radius, with a       *)
(* larger body could_cast_shadow rejects: the first accepted body is       *)
(* replaced.                                                               *)
C13_Witness ==
    /\ shadow.called
    /\ shadow.nb_max = 2
    /\ Cardinality(Casting) = 3
    /\ Len(shadow.others) = 4
    /\ ~shadow.others[1].could_cast
    /\ shadow.others[1].radius = MaxNb
    /\ shadow.others[2].radius < shadow.others[3].radius
    /\ shadow.others[3].radius < shadow.others[4].radius
    /\ Returned_radii = <<shadow.others[4].radius, shadow.others[3].radius>>

----------------------------------------------------------------------------
(* C14: the value sun_get_vmag passes to the logarithm is always within    *)
(* [0.000128, 1], so the eclipse term of the magnitude is 0 when the       *)
(* factor is 1.0 and never exceeds 2.5 * log10(1 / 0.000128) = 9.732, also *)
(* when compute_sun_eclipse_factor returns 0.0.                            *)
C14_Floored ==
    sunmag.called =>
        /\ sunmag.out.eclipse_factor >= MinEclipseFactor
        /\ sunmag.out.eclipse_factor <= 1000000
        /\ sunmag.factor = 1000000 => sunmag.out.dimming = 0
        /\ sunmag.out.dimming >= 0
        /\ sunmag.out.dimming <= 9732

(* A total eclipse: the factor is 0.0 and the term is at its largest. *)
C14_Witness ==
    /\ sunmag.called
    /\ eclipse.out.branch = "umbra"
    /\ sunmag.factor = 0
    /\ sunmag.out.eclipse_factor = MinEclipseFactor
    /\ sunmag.out.dimming = 9732

----------------------------------------------------------------------------
(* C20: compute_sun_eclipse_factor never divides by zero: for all radii    *)
(* that are not negative, the branch of the overlap, which divides by      *)
(* 2 * sep and by each of the two radii, is reached only with sep > 0 and  *)
(* both radii > 0; with sep zero, or equal to the sum or to the difference *)
(* of the radii, another branch is taken.                                  *)
C20_NoDivisionByZero ==
    LET sun_r == SeenSize(eclipse.sun_radius_m, eclipse.sun_dist)
        sph_r == SeenSize(eclipse.moon_radius_m, eclipse.moon_dist)
    IN
    /\ eclipse.out.branch = "lens" =>
          /\ eclipse.sep > 0 /\ sun_r > 0 /\ sph_r > 0
          /\ \A i \in 1..3 : eclipse.out.divisors[i] # 0
          /\ eclipse.out.cos_alpha # NoNumber
          /\ eclipse.out.cos_beta # NoNumber
    /\ eclipse.out.branch = "inside" =>
          sun_r > 0 /\ eclipse.out.val \in 0..1000
    /\ eclipse.has_moon /\ eclipse.out.branch # "none"
          /\ (eclipse.sep = 0 \/ eclipse.sep = sun_r + sph_r
                \/ eclipse.sep = sun_r - sph_r
                \/ eclipse.sep = sph_r - sun_r)
          => eclipse.out.branch # "lens"

(* The disks cross with the smallest separation there is. *)
C20_Witness ==
    /\ eclipse.out.branch = "lens"
    /\ eclipse.sep = 1
    /\ eclipse.out.divisors = <<2, 2, 2>>

----------------------------------------------------------------------------
(* C15: every position query terminates: for every body of a catalog the   *)
(* loader has produced, planet_get_pvh recurses only toward the parent and *)
(* makes at most as many nested calls as the body has ancestors, and the   *)
(* loader never produces a chain of parents with a cycle, a body named as  *)
(* its own parent included.                                                *)
C15_Terminates ==
    ~ini.failed =>
        \A i \in DOMAIN ini.order :
            LET name == ini.order[i]
                n == Len(ini.order)
            IN  /\ ini.parent[name] # name
                /\ Depth(ini, name, n + 1) <= n
                /\ NestedCalls(ini, name, n + 1)
                      <= Depth(ini, name, n + 1)
                /\ NestedCalls(ini, name, n + 1) <= n

----------------------------------------------------------------------------
(* Helpers of the properties of module_list_objs. *)

(* The child is skipped: max_mag is a number, the child gives a magnitude  *)
(* and that magnitude is above max_mag.                                    *)
Skipped(i) ==
    LET child == listing.obj.children[i]
    IN  /\ ~listing.max_mag.nan
        /\ child.info = 0
        /\ ~child.vmag.nan
        /\ child.vmag.val > listing.max_mag.val

(* The children that are not skipped and for which the callback, when     *)
(* there is one, returns a value that is not zero.                         *)
Stopping ==
    {i \in DOMAIN listing.obj.children :
        listing.f /\ ~Skipped(i) /\ listing.obj.children[i].stop # 0}

(* The last child visited: the first of Stopping, or the last child. *)
LastVisited ==
    IF Stopping = {} THEN Len(listing.obj.children)
    ELSE CHOOSE i \in Stopping : \A j \in Stopping : i <= j

CallbackEvents == SelectSeq(listing.out.trace, LAMBDA e : e.ev = "f")

(* C16: on a module without a list method of its own, module_list_objs     *)
(* returns -1 when the module is not listable, and otherwise 0 after it    *)
(* has visited the children in the order of the list: a child is skipped   *)
(* only when max_mag is a number, the child gives its magnitude and that   *)
(* magnitude is above max_mag; the callback is called once for each child  *)
(* not skipped, and no child is visited after the first one for which the  *)
(* callback returns a value that is not zero.                              *)
C16_DefaultListing ==
    listing.called /\ ~listing.obj.has_list =>
        /\ ~listing.obj.listable =>
              listing.out.ret = 0 - 1 /\ listing.out.trace = <<>>
        /\ listing.obj.listable =>
              /\ listing.out.ret = 0
              /\ \A k \in DOMAIN listing.out.trace :
                    listing.out.trace[k].child \in 1..LastVisited
              /\ \A k \in 1..(Len(listing.out.trace) - 1) :
                    listing.out.trace[k].child
                        <= listing.out.trace[k + 1].child
              /\ listing.f =>
                    \A i \in 1..LastVisited :
                        Cardinality({k \in DOMAIN CallbackEvents :
                                       CallbackEvents[k].child = i})
                            = IF Skipped(i) THEN 0 ELSE 1
              /\ ~listing.f => CallbackEvents = <<>>

(* Two children: the first has exactly the magnitude max_mag and is not    *)
(* skipped, and the callback stops the listing on it.                      *)
C16_Witness ==
    /\ listing.called
    /\ ~listing.obj.has_list /\ listing.obj.listable /\ listing.f
    /\ Len(listing.obj.children) = 2
    /\ ~listing.max_mag.nan
    /\ listing.obj.children[1].info = 0
    /\ listing.obj.children[1].vmag = listing.max_mag
    /\ listing.obj.children[1].stop = 1
    /\ listing.out.ret = 0
    /\ listing.out.trace = <<[ev |-> "obj_get_info", child |-> 1],
                             [ev |-> "f", child |-> 1]>>

----------------------------------------------------------------------------
(* Helpers of the properties of could_cast_shadow. *)

KnownOccluders == {JUPITER, IO, EUROPA, GANYMEDE, CALLISTO}

(* The pairs the filter is meant for: the Earth on the Moon, and two       *)
(* bodies of Jupiter and its four large moons.                             *)
KnownPair(a, b) ==
    \/ a = EARTH /\ b = MOON
    \/ a # b /\ a \in KnownOccluders /\ b \in KnownOccluders

(* The could_cast_shadow calls of the last call, by their place in its     *)
(* trace.                                                                  *)
ShadowTests ==
    {k \in DOMAIN call.log : call.log[k].ev = "could_cast_shadow"}

(* C19: could_cast_shadow(a, b) can be true only when a is the Earth and b *)
(* the Moon, or when a and b are two distinct bodies among Jupiter, Io,    *)
(* Europa, Ganymede and Callisto; for every other pair of ids it returns   *)
(* false without evaluating a position, and get_shadow_candidates returns  *)
(* 0 without iterating when the target is neither the Moon nor one of      *)
(* those five bodies.                                                      *)
C19_KnownPairsOnly ==
    call.op = "shadows" =>
        /\ \A k \in ShadowTests :
              LET e == call.log[k]
              IN  e.planet # NoBody =>
                    /\ e.ret => KnownPair(e.planet, e.target)
                    /\ ~KnownPair(e.planet, e.target) =>
                          ~e.ret /\ e.since = k - 1
        /\ call.planet \notin {MOON} \cup KnownOccluders =>
              call.ret.nb = 0 /\ Len(call.log) = 1

----------------------------------------------------------------------------
(* C17: the queries (planet_get_pvh, planet_get_pvo, planet_get_phase,     *)
(* planet_get_vmag, could_cast_shadow, get_shadow_candidates,              *)
(* compute_sun_eclipse_factor) never modify the observer snapshot of the   *)
(* caller, and of a body they modify only the four cache fields            *)
(* last_full_pvh, last_full_update, pvo and pvo_obs_hash; the light-time   *)
(* pass works on a copy of the observer of its own, in which the time      *)
(* alone is changed.                                                       *)
C17_Frame ==
    [][ncalls' # ncalls =>
          /\ call'.obs_after = call'.obs
          /\ update_delta_s' = update_delta_s
          /\ planets' = planets
          /\ \A field \in DOMAIN call'.obs \ {"tt"} :
                call'.obs2[field] = call'.obs[field]
          /\ call'.obs2.tt <= call'.obs.tt]_vars

(* A list of shadow candidates whose light-time pass ran on a copy with an *)
(* earlier time, and that filled the caches of the body it kept.           *)
C17_Witness ==
    /\ call.op = "shadows"
    /\ call.ret.nb = 1
    /\ call.obs2.tt < call.obs.tt
    /\ call.obs_after = call.obs
    /\ last_full_update[JUPITER] = call.obs2.tt
    /\ pvo_obs_hash[JUPITER] = call.obs.hash

----------------------------------------------------------------------------
(* Helpers of the properties of the concurrent calls. *)

(* The cache of the body holds a state that is not the state of the body   *)
(* at the epoch of the cache.                                              *)
Mismatched ==
    /\ last_full_update[RaceBody] # 0
    /\ last_full_pvh[RaceBody] #
          eraPlan94(last_full_update[RaceBody],
                    (RaceBody - MERCURY) \div 100 + 1)

(* A write of one thread lies between the two writes of another. *)
Interleaved ==
    \E i, j, k \in DOMAIN race.writes :
        /\ i < j /\ j < k
        /\ race.writes[i].t = race.writes[k].t
        /\ race.writes[j].t # race.writes[i].t

(* The two writes of thread t are the last two writes. *)
StoredLast(t) ==
    LET n == Len(race.writes)
    IN  /\ n >= 2
        /\ race.writes[n - 1] = [t |-> t, field |-> "pvh"]
        /\ race.writes[n] = [t |-> t, field |-> "epoch"]

Storing == {t \in Threads : race.th[t].pc = "store_epoch"}

(* C18: planet_get_pvh calls on one body are not safe to run concurrently: *)
(* the cached state and its epoch are written in two steps, so that a      *)
(* state where the cached state is of one query and the epoch of another   *)
(* arises, and arises only, when the two writes of a call are separated by *)
(* a write of another call or are not both done; a call whose two writes   *)
(* come last leaves its own state with its own epoch.                      *)
C18_TwoStepStore ==
    /\ \A t \in Threads :
          StoredLast(t) =>
              /\ last_full_pvh[RaceBody] = race.th[t].pvh
              /\ last_full_update[RaceBody] = race.th[t].tt
    /\ Mismatched => Interleaved \/ Storing # {}
    /\ \A t \in Storing : last_full_pvh[RaceBody] # race.th[t].pvh =>
          \E i \in DOMAIN race.writes :
              race.writes[i].t # t /\ race.writes[i].field = "pvh"

(* Two calls at different times have interleaved their writes and are      *)
(* done: the cache holds the state of one with the epoch of the other, and *)
(* a third call has extrapolated from that pair.                           *)
C18_Witness ==
    /\ Mismatched
    /\ Storing = {}
    /\ race.th[1].pc = "done" /\ ~race.th[1].hit
    /\ race.th[2].pc = "done" /\ ~race.th[2].hit
    /\ last_full_update[RaceBody] = race.th[1].tt
    /\ last_full_pvh[RaceBody] = race.th[2].pvh
    /\ race.th[3].pc = "done" /\ race.th[3].hit
    /\ race.th[3].upd = race.th[1].tt
    /\ race.th[3].tt # race.th[3].upd
    /\ race.th[3].ret = eraPvu(race.th[3].tt - race.th[1].tt, race.th[2].pvh)

----------------------------------------------------------------------------
(* Helpers of the property of the occluders of the Sun. *)

Moons == {k \in DOMAIN occluder.siblings : occluder.siblings[k].id = MOON}

FirstMoon == CHOOSE k \in Moons : \A j \in Moons : k <= j

(* C21: only the Moon is taken as an occluder of the Sun.  The eclipse     *)
(* factor is the shadow factor of the first body with the id of the Moon   *)
(* among the children of the parent of the Sun, no other body is looked    *)
(* at, and without a body with the id of the Moon the factor is 1.0.       *)
C21_MoonOnly ==
    occluder.called =>
        /\ Moons = {} =>
              /\ occluder.out = [branch |-> "no_moon", val |-> 1000]
              /\ occluder.seen = <<>>
        /\ Moons # {} =>
              /\ occluder.seen = <<FirstMoon>>
              /\ occluder.out =
                    ShadowFactor(
                        SeenSize(occluder.sun_radius_m, 1),
                        SeenSize(occluder.siblings[FirstMoon].radius_m,
                                 occluder.siblings[FirstMoon].dist),
                        occluder.siblings[FirstMoon].sep)

(* A large body in front of the Sun comes first in the list, and a second  *)
(* Moon after the first: the factor is the one of the first Moon, which is *)
(* away from the Sun.                                                      *)
C21_Witness ==
    /\ occluder.called
    /\ Len(occluder.siblings) >= 2
    /\ occluder.siblings[1].id # MOON
    /\ occluder.siblings[1].sep = 0
    /\ occluder.siblings[1].radius_m > occluder.sun_radius_m
    /\ occluder.siblings[2].id = MOON
    /\ occluder.siblings[2].sep = MaxSep
    /\ occluder.out.branch = "outside"

----------------------------------------------------------------------------
(* C22: a planet_get_pvh call on a moon of Jupiter or on a generic body    *)
(* whose parent is missing is stopped by a check before the missing parent *)
(* is dereferenced: no call reads a field of the null body, and no call    *)
(* ends the process.                                                       *)
C22_ParentChecked ==
    /\ call.op # "trapped"
    /\ \A i \in DOMAIN call.log : call.log[i].ev # "null_deref"

----------------------------------------------------------------------------
(* Helpers of the property of the data sources. *)

(* The add_data_source calls of the task of a request up to the first that *)
(* is not MODULE_AGAIN.                                                    *)
Finished(req) == \E j \in DOMAIN req.calls : req.calls[j].r # MODULE_AGAIN

(* C23: module_add_data_source leaves a task in the core if and only if    *)
(* add_data_source of the module returned MODULE_AGAIN.  Every run of the  *)
(* task calls add_data_source with the module, url and key of the request, *)
(* returns 0 while the result is MODULE_AGAIN, and on the first other      *)
(* result frees its copies of url and key once and returns 1; the module   *)
(* is not called for the request after that.                               *)
C23_Retry ==
    /\ ~sources.trapped
    /\ \A i \in DOMAIN sources.reqs :
          LET req == sources.reqs[i]
              n == Len(req.calls)
          IN  /\ req.enqueued <=> req.first = MODULE_AGAIN
              /\ \A j \in DOMAIN req.calls :
                    /\ req.calls[j].module = req.module
                    /\ req.calls[j].url = req.url
                    /\ req.calls[j].key = req.key
                    /\ req.rets[j] = IF req.calls[j].r = MODULE_AGAIN
                                     THEN 0 ELSE 1
                    /\ req.calls[j].r # MODULE_AGAIN => j = n
              /\ req.freed.url = req.freed.key
              /\ req.freed.url = IF Finished(req) THEN 1 ELSE 0
              /\ Finished(req) => ~req.queued

----------------------------------------------------------------------------
(* C24: a light-time-corrected planet_get_pvo call returns a cached value  *)
(* only if an earlier light-time-corrected call on the same body stored    *)
(* that value under an equal fingerprint, from the initial state on: the   *)
(* first query on a fresh body computes the position, whatever the         *)
(* fingerprint of the observer.  The calls before the last one are not     *)
(* kept, so that a call answered from the cache is required to be the      *)
(* second call after a call that stored, or a later call.                  *)
C24_StoredBefore ==
    [][(/\ Called("pvo")
        /\ call'.adjust
        /\ HasEvent(call'.log, "pvo_hit", call'.planet)) =>
          /\ ncalls > 0
          /\ \/ ncalls > 1
             \/ /\ call.op \in {"pvo", "phase"}
                /\ call.adjust
                /\ call.planet = call'.planet
                /\ HasEvent(call.log, "pvo_store", call.planet)
                /\ call.obs.hash = call'.obs.hash
                /\ call'.ret = pvo[call.planet]
    ]_vars

----------------------------------------------------------------------------
(* Helpers of the property of the heliocentric caches. *)

(* The state the model of a body gives at an epoch, relative to its parent. *)
OwnModel(b, e) ==
    IF b \in MajorPlanets THEN eraPlan94(e, (b - MERCURY) \div 100 + 1)
    ELSE IF b \in GalileanMoons THEN l12(e, b - IO + 1)
    ELSE orbit_compute_pv(e)

(* The heliocentric state of a body at an epoch by the models alone. *)
RECURSIVE ModelState(_, _)
ModelState(b, e) ==
    IF b = SUN THEN eraZpv
    ELSE IF b \in MajorPlanets THEN OwnModel(b, e)
    ELSE eraPvppv(OwnModel(b, e), ModelState(parent[b], e))

(* The states planet_get_pvh can store for a body at an epoch, and those   *)
(* it can return: what it stores, or a stored state of another epoch less  *)
(* than update_delta_s away, extrapolated.                                 *)
RECURSIVE Storable(_, _)
RECURSIVE Returnable(_, _)
Storable(b, e) ==
    IF b \in MajorPlanets THEN {OwnModel(b, e)}
    ELSE {eraPvppv(OwnModel(b, e), r) : r \in Returnable(parent[b], e)}

Returnable(b, e) ==
    IF b = SUN THEN {eraZpv}
    ELSE Storable(b, e) \cup
         UNION {{eraPvu(e - e0, c) : c \in Storable(b, e0)} :
                  e0 \in {x \in (e - MaxDelta)..(e + MaxDelta) :
                            x # 0 /\ Abs(e - x) < update_delta_s[b]}}

Cached == {b \in planets : last_full_update[b] # 0}

(* C25 as stated: whenever the heliocentric cache of a body is present,    *)
(* the cached state is what the model of the body yields at the cached     *)
(* epoch added to the model state of its parent at that epoch.             *)
C25_AsStated ==
    \A b \in Cached : last_full_pvh[b] = ModelState(b, last_full_update[b])

(* C25, amended: whenever the heliocentric cache of a body is present, the *)
(* cached state is what the model of the body yields at the cached epoch   *)
(* added to what planet_get_pvh returns for its parent at that epoch: the  *)
(* model state of the parent, or the cached state of the parent linearly   *)
(* extrapolated from an epoch less than its update_delta_s away.  The      *)
(* cache of a major planet is its model state at the cached epoch.         *)
C25_Coherent ==
    \A b \in Cached : last_full_pvh[b] \in Storable(b, last_full_update[b])

(* The cache of Io holds a state composed with the state of Jupiter        *)
(* extrapolated from the cache of Jupiter, of another epoch.               *)
C25_Witness ==
    /\ IO \in Cached
    /\ JUPITER \in Cached
    /\ last_full_update[JUPITER] # last_full_update[IO]
    /\ last_full_pvh[IO] # ModelState(IO, last_full_update[IO])
    /\ last_full_pvh[IO] =
          eraPvppv(OwnModel(IO, last_full_update[IO]),
                   eraPvu(last_full_update[IO] - last_full_update[JUPITER],
                          last_full_pvh[JUPITER]))

----------------------------------------------------------------------------
(* Helpers of the property of the render pass. *)

Slots == 0..(ShadowSpheresMax - 1)

RenderCasters == {k \in DOMAIN render.others : render.others[k].could_cast}

(* C26: during a render pass of a planet the number of shadow spheres      *)
(* handed to the painter never exceeds 4, the capacity of shadow_spheres:  *)
(* get_shadow_candidates returns at most 4 and stays in the array, and the *)
(* ring pass adds the sphere of the planet only when fewer than 4 are      *)
(* there, at an index below 4.                                             *)
C26_SpheresInCapacity ==
    render.called =>
        LET hips == render.out.hips
            rings == render.out.rings
        IN  /\ hips.nb <= ShadowSpheresMax
            /\ rings.nb <= ShadowSpheresMax
            /\ hips.reads \cup hips.writes \subseteq Slots
            /\ rings.writes \subseteq Slots
            /\ Len(rings.spheres) = rings.nb
            /\ rings.nb = IF render.has_rings /\ hips.nb < ShadowSpheresMax
                          THEN hips.nb + 1 ELSE hips.nb

(* More bodies cast a shadow than the array holds, and the planet has      *)
(* rings: the array is full after get_shadow_candidates, and the ring pass *)
(* adds nothing.                                                           *)
C26_Witness ==
    /\ render.called
    /\ render.has_rings
    /\ Cardinality(RenderCasters) > ShadowSpheresMax
    /\ render.out.hips.nb = ShadowSpheresMax
    /\ render.out.rings = render.out.hips

----------------------------------------------------------------------------
(* Helpers of the property of the tree of the modules. *)

InList(child, p) ==
    \E k \in DOMAIN tree.objs[p].children : tree.objs[p].children[k] = child

Times(child, p) ==
    Cardinality({k \in DOMAIN tree.objs[p].children :
                   tree.objs[p].children[k] = child})

(* C27: after any sequence of module_add, module_add_new and module_remove *)
(* calls that satisfy their assertions, an object is in the children list  *)
(* of a parent if and only if its parent field points to that parent, no *)
(* object is in two children lists (nor twice in one), every object in a   *)
(* children list has a reference count above 0, as module_get_child        *)
(* asserts, and a module_add followed by the module_remove of the same     *)
(* child leaves the reference count the child had and a null parent      *)
(* field.                                                                  *)
C27_TreeConsistent ==
    /\ \A p \in Objs, child \in Objs :
          /\ InList(child, p) <=> tree.objs[child].parent = p
          /\ InList(child, p) =>
                /\ Times(child, p) = 1
                /\ tree.objs[child].ref > 0
                /\ tree.objs[child].live = "alive"
                /\ \A q \in Objs \ {p} : ~InList(child, q)
    /\ tree.last.asserted
    /\ (tree.last.op = "module_remove" /\ tree.last.after_add >= 0) =>
          /\ tree.objs[tree.last.child].ref = tree.last.after_add
          /\ tree.objs[tree.last.child].parent = NoObj
          /\ tree.objs[tree.last.child].live = "alive"

(* An object a caller holds was added to the root and removed again: it is *)
(* out of the list of the root, with the one reference it had.             *)
C27_Witness ==
    /\ tree.last.op = "module_remove"
    /\ tree.last.after_add = 1
    /\ tree.last.parent = 1
    /\ tree.last.child # 1
    /\ tree.objs[tree.last.child].ref = 1
    /\ tree.objs[tree.last.child].parent = NoObj
    /\ tree.objs[tree.last.child].live = "alive"
    /\ ~InList(tree.last.child, 1)

====
